---- MODULE Spec2Model ----
(***************************************************************************)
(* TrendRadar: content packing (reporting/batch_utils.py), title           *)
(* formatting (reporting/formatters.py) and notification dispatch          *)
(* (notification/manager.py, notification/channels/*.py).                  *)
(*                                                                         *)
(* A Python str is modelled as a sequence of pieces; a piece is a record   *)
(* [k, g, j, ws]: k names the template the characters come from, g and j   *)
(* are the group and item index it was rendered for, and ws is the         *)
(* sequence of the UTF-8 byte widths (1..4) of its characters.  String     *)
(* concatenation is \o, len(s.encode("utf-8")) is Bytes(s).                *)
(***************************************************************************)
EXTENDS Integers, Sequences, FiniteSets, TLC

VARIABLES
    report_data,   \* the report being packed (stats, new_titles, failed_ids)
    channel,       \* the channel whose send function runs the pipeline
    budget,        \* that channel's configured byte budget (*_BATCH_SIZE)
    mode,          \* "daily" | "current" | "incremental"
    update_info,   \* <<>> (None) or <<[remote_version, current_version]>>
    reverse_order, \* CONFIG["REVERSE_CONTENT_ORDER"]
    batches,       \* result of split_content_into_batches
    payloads,      \* result of add_batch_headers
    pc             \* position of the pipeline: "start", "split", "annotated"

pvars == <<report_data, channel, budget, mode, update_info, reverse_order, batches, payloads, pc>>

----------------------------------------------------------------------------
(* Characters and byte widths *)

\* A width sequence is run-length encoded: a sequence of runs <<w, n>>, n > 0
\* characters of w bytes each, adjacent runs having different widths.
Run(w, n) == IF n = 0 THEN <<>> ELSE << <<w, n>> >>

\* n characters of 1, 3 and 4 UTF-8 bytes (ASCII, CJK / BMP symbols, emoji)
A(n) == Run(1, n)
C(n) == Run(3, n)
E(n) == Run(4, n)

\* concatenation of two width sequences
a ++ b ==
    IF a = <<>> THEN b
    ELSE IF b = <<>> THEN a
    ELSE IF a[Len(a)][1] = b[1][1]
         THEN SubSeq(a, 1, Len(a) - 1) \o << <<b[1][1], a[Len(a)][2] + b[1][2]>> >> \o Tail(b)
         ELSE a \o b

RECURSIVE SumSeq(_)
\* the number of bytes of a width sequence
SumSeq(ws) == IF ws = <<>> THEN 0 ELSE ws[1][1] * ws[1][2] + SumSeq(Tail(ws))

\* number of decimal digits of str(n)
Digits(n) == IF n < 10 THEN 1 ELSE IF n < 100 THEN 2 ELSE IF n < 1000 THEN 3 ELSE 4

\* the characters of f"{n}"
Num(n) == A(Digits(n))

\* one piece of text (b caches its byte length); the empty string is the
\* empty sequence of pieces
P(k, g, j, ws) ==
    IF ws = <<>> THEN <<>> ELSE <<[k |-> k, g |-> g, j |-> j, ws |-> ws, b |-> SumSeq(ws)]>>

RECURSIVE Bytes(_)
\* len(text.encode("utf-8"))
Bytes(text) == IF text = <<>> THEN 0 ELSE text[1].b + Bytes(Tail(text))

RECURSIVE FitChars(_, _)
\* the longest prefix of the width sequence ws that ends on a character
\* boundary and has at most m bytes
FitChars(ws, m) ==
    IF ws = <<>> THEN <<>>
    ELSE LET w == ws[1][1]
             n == ws[1][2]
         IN  IF w * n <= m THEN Run(w, n) ++ FitChars(Tail(ws), m - w * n)
             ELSE Run(w, m \div w)

\* bytes[:m] followed by dropping a trailing partial character: the longest
\* prefix of whole characters within the first m bytes (m >= 0)
RECURSIVE CutText(_, _)
CutText(text, m) ==
    IF text = <<>> THEN <<>>
    ELSE IF text[1].b <= m THEN <<text[1]>> \o CutText(Tail(text), m - text[1].b)
    ELSE P(text[1].k, text[1].g, text[1].j, FitChars(text[1].ws, m))

\* _truncate_to_bytes: text unchanged when it fits; otherwise text_bytes[:max_bytes]
\* (a negative max_bytes drops that many bytes from the end, as a Python slice
\* does) decoded after dropping up to 3 trailing bytes of a split character
_truncate_to_bytes(text, max_bytes) ==
    LET len == Bytes(text)
        cut == IF max_bytes >= 0 THEN max_bytes
               ELSE IF len + max_bytes > 0 THEN len + max_bytes ELSE 0
    IN  IF len <= max_bytes THEN text
        ELSE IF cut = 0 THEN <<>> ELSE CutText(text, cut)

----------------------------------------------------------------------------
(* Batch headers *)

\* _get_batch_header: the "[第 i/N 批次]" marker in the dialect of format_type
_get_batch_header(format_type, batch_num, total_batches) ==
    LET nums == Num(batch_num) ++ A(1) ++ Num(total_batches)
        ws == IF format_type = "telegram"
                THEN A(4) ++ C(1) ++ A(1) ++ nums ++ A(1) ++ C(2) ++ A(6)
              ELSE IF format_type = "slack"
                THEN A(2) ++ C(1) ++ A(1) ++ nums ++ A(1) ++ C(2) ++ A(3)
              ELSE IF format_type \in {"wework_text", "bark"}
                THEN A(1) ++ C(1) ++ A(1) ++ nums ++ A(1) ++ C(2) ++ A(2)
              ELSE A(3) ++ C(1) ++ A(1) ++ nums ++ A(1) ++ C(2) ++ A(4)
    IN  P("batch_header", batch_num, total_batches, ws)

\* variant: the reserve assumes at most 9 batches
get_max_batch_header_sizeOneDigit(format_type) == Bytes(_get_batch_header(format_type, 9, 9))

get_max_batch_header_size(format_type) == Bytes(_get_batch_header(format_type, 99, 99))

\* variant: a marker on every batch, a single one included
add_batch_headersAlways(bs, format_type, max_bytes) ==
    [i \in 1..Len(bs) |->
        LET header == _get_batch_header(format_type, i, Len(bs))
            max_content_size == max_bytes - Bytes(header)
        IN  header \o (IF Bytes(bs[i]) > max_content_size
                       THEN _truncate_to_bytes(bs[i], max_content_size)
                       ELSE bs[i])]

\* variant: the markers numbered from the last batch to the first
add_batch_headersSwapped(bs, format_type, max_bytes) ==
    IF Len(bs) <= 1 THEN bs
    ELSE [i \in 1..Len(bs) |->
            LET header == _get_batch_header(format_type, Len(bs) + 1 - i, Len(bs))
                max_content_size == max_bytes - Bytes(header)
            IN  header \o (IF Bytes(bs[i]) > max_content_size
                           THEN _truncate_to_bytes(bs[i], max_content_size)
                           ELSE bs[i])]

\* add_batch_headers: a single batch is returned as it is; otherwise every
\* batch gets its marker and is truncated to max_bytes - marker size first
add_batch_headers(bs, format_type, max_bytes) ==
    IF Len(bs) <= 1 THEN bs
    ELSE [i \in 1..Len(bs) |->
            LET header == _get_batch_header(format_type, i, Len(bs))
                max_content_size == max_bytes - Bytes(header)
            IN  header \o (IF Bytes(bs[i]) > max_content_size
                           THEN _truncate_to_bytes(bs[i], max_content_size)
                           ELSE bs[i])]

----------------------------------------------------------------------------
(* Input strings: sequences of character classes.  "a" is an ASCII letter, *)
(* "c" a CJK character, "&" an ampersand, " " a blank.                     *)

CharWidth(ch) == IF ch = "c" THEN 3 ELSE 1

RECURSIVE Enc(_)
\* s.encode("utf-8"), as byte widths per character
Enc(s) == IF s = <<>> THEN <<>> ELSE Run(CharWidth(s[1]), 1) ++ Enc(Tail(s))

RECURSIVE CollapseBlanks(_)
\* re.sub(r"\s+", " ", s)
CollapseBlanks(s) ==
    IF Len(s) < 2 THEN s
    ELSE IF s[1] = " " /\ s[2] = " " THEN CollapseBlanks(Tail(s))
    ELSE <<s[1]>> \o CollapseBlanks(Tail(s))

\* str.strip() of a string whose blank runs are already single blanks
Strip(s) ==
    LET l == IF s # <<>> /\ s[1] = " " THEN Tail(s) ELSE s
    IN  IF l # <<>> /\ l[Len(l)] = " " THEN SubSeq(l, 1, Len(l) - 1) ELSE l

\* clean_title: newlines to blanks, blank runs to one blank, strip
clean_title(title) == Strip(CollapseBlanks(title))

RECURSIVE html_escape(_)
\* html_escape: "&" becomes "&amp;" (the other escaped characters are not
\* in the modelled alphabet)
html_escape(s) ==
    IF s = <<>> THEN <<>>
    ELSE (IF s[1] = "&" THEN <<"a", "a", "a", "a", "a">> ELSE <<s[1]>>) \o html_escape(Tail(s))

\* min and max of a non-empty sequence of ranks
MinOf(ranks) == CHOOSE r \in {ranks[i] : i \in 1..Len(ranks)} :
                    \A i \in 1..Len(ranks) : r <= ranks[i]
MaxOf(ranks) == CHOOSE r \in {ranks[i] : i \in 1..Len(ranks)} :
                    \A i \in 1..Len(ranks) : r >= ranks[i]

\* format_rank_display (processing/stats.py): "[min]" or "[min - max]",
\* wrapped in the dialect's highlight markup when min <= rank_threshold
format_rank_display(ranks, rank_threshold, platform) ==
    IF ranks = <<>> THEN <<>>
    ELSE LET lo == MinOf(ranks)
             hi == MaxOf(ranks)
             body == IF lo = hi THEN A(1) ++ Num(lo) ++ A(1)
                     ELSE A(1) ++ Num(lo) ++ A(3) ++ Num(hi) ++ A(1)
             open == IF platform = "feishu" THEN A(20)
                     ELSE IF platform = "telegram" THEN A(3)
                     ELSE IF platform = "slack" THEN A(1)
                     ELSE A(2)
             close == IF platform = "feishu" THEN A(9)
                      ELSE IF platform = "telegram" THEN A(4)
                      ELSE IF platform = "slack" THEN A(1)
                      ELSE A(2)
         IN  IF lo <= rank_threshold THEN open ++ body ++ close ELSE body

\* format_title_for_platform: the byte widths of the rendered line
format_title_for_platform(platform, title_data, show_source) ==
    LET rank_display == format_rank_display(title_data.ranks, title_data.rank_threshold, platform)
        link_url == IF title_data.mobile_url # <<>> THEN title_data.mobile_url ELSE title_data.url
        cleaned_title == clean_title(title_data.title)
        formatted_title ==
            IF link_url = <<>> THEN Enc(cleaned_title)
            ELSE IF platform = "telegram"
                THEN A(9) ++ Enc(link_url) ++ A(2) ++ Enc(html_escape(cleaned_title)) ++ A(4)
            ELSE IF platform = "slack"
                THEN A(1) ++ Enc(link_url) ++ A(1) ++ Enc(cleaned_title) ++ A(1)
            ELSE A(1) ++ Enc(cleaned_title) ++ A(2) ++ Enc(link_url) ++ A(1)
        title_prefix == IF title_data.is_new THEN E(1) ++ A(1) ELSE <<>>
        source == IF ~show_source THEN <<>>
                  ELSE IF platform = "feishu" THEN A(20) ++ Enc(title_data.source_name) ++ A(9)
                  ELSE A(1) ++ Enc(title_data.source_name) ++ A(2)
        rank == IF rank_display # <<>> THEN A(1) ++ rank_display ELSE <<>>
        time == IF title_data.time_display = <<>> THEN <<>>
                ELSE IF platform = "feishu" THEN A(22) ++ Enc(title_data.time_display) ++ A(7)
                ELSE IF platform = "telegram" THEN A(9) ++ Enc(title_data.time_display) ++ A(7)
                ELSE IF platform \in {"ntfy", "slack"} THEN A(4) ++ Enc(title_data.time_display) ++ A(1)
                ELSE A(3) ++ Enc(title_data.time_display)
        cnt == IF title_data.count <= 1 THEN <<>>
               ELSE IF platform = "feishu" THEN A(22) ++ Num(title_data.count) ++ C(1) ++ A(8)
               ELSE IF platform = "telegram" THEN A(8) ++ Num(title_data.count) ++ C(1) ++ A(8)
               ELSE IF platform \in {"ntfy", "slack"} THEN A(3) ++ Num(title_data.count) ++ C(1) ++ A(2)
               ELSE A(2) ++ Num(title_data.count) ++ C(1) ++ A(1)
    IN  IF platform \in {"feishu", "dingtalk", "wework", "bark", "telegram", "ntfy", "slack"}
        THEN source ++ title_prefix ++ formatted_title ++ rank ++ time ++ cnt
        ELSE Enc(cleaned_title)

----------------------------------------------------------------------------
(* split_content_into_batches: templates *)

\* CONFIG["FEISHU_MESSAGE_SEPARATOR"], a configured rule of CJK box characters
FEISHU_MESSAGE_SEPARATOR == C(3)

\* now.strftime('%Y-%m-%d %H:%M:%S')
TimeStamp == A(19)

RECURSIVE total_titles_from(_, _)
\* sum(len(stat["titles"]) for stat in report_data["stats"] if stat["count"] > 0)
total_titles_from(stats, i) ==
    IF i > Len(stats) THEN 0
    ELSE (IF stats[i].count > 0 THEN Len(stats[i].titles) ELSE 0) + total_titles_from(stats, i + 1)

base_header(format_type, total_titles) ==
    P("base_header", 0, 0,
      IF format_type \in {"wework", "bark"} THEN A(2) ++ C(5) ++ A(3) ++ Num(total_titles) ++ A(4)
      ELSE IF format_type = "telegram" THEN C(5) ++ A(1) ++ Num(total_titles) ++ A(2)
      ELSE IF format_type = "ntfy" THEN A(2) ++ C(5) ++ A(3) ++ Num(total_titles) ++ A(2)
      ELSE IF format_type = "feishu" THEN <<>>
      ELSE IF format_type = "dingtalk"
        THEN A(2) ++ C(5) ++ A(3) ++ Num(total_titles) ++ A(2)
             ++ A(2) ++ C(3) ++ A(3) ++ TimeStamp ++ A(2)
             ++ A(2) ++ C(3) ++ A(3) ++ C(6) ++ A(2)
             ++ A(5)
      ELSE IF format_type = "slack" THEN A(1) ++ C(5) ++ A(2) ++ Num(total_titles) ++ A(2)
      ELSE <<>>)

base_footer(format_type, upd) ==
    LET rv == IF upd = <<>> THEN <<>> ELSE Enc(upd[1].remote_version)
        cv == IF upd = <<>> THEN <<>> ELSE Enc(upd[1].current_version)
        md == A(14) ++ C(5) ++ A(3) ++ rv ++ A(2) ++ C(3) ++ A(3) ++ cv ++ A(2)
    IN  P("base_footer", 0, 0,
          IF format_type \in {"wework", "bark"}
            THEN A(5) ++ C(5) ++ TimeStamp ++ (IF upd # <<>> THEN md ELSE <<>>)
          ELSE IF format_type = "telegram"
            THEN A(2) ++ C(5) ++ TimeStamp
                 ++ (IF upd # <<>> THEN A(12) ++ C(5) ++ A(1) ++ rv ++ C(3) ++ A(1) ++ cv ELSE <<>>)
          ELSE IF format_type \in {"ntfy", "dingtalk"}
            THEN A(4) ++ C(5) ++ TimeStamp ++ (IF upd # <<>> THEN md ELSE <<>>)
          ELSE IF format_type = "feishu"
            THEN A(21) ++ C(5) ++ TimeStamp ++ A(7)
                 ++ (IF upd # <<>> THEN A(31) ++ C(5) ++ A(1) ++ rv ++ C(3) ++ A(1) ++ cv ++ A(7) ELSE <<>>)
          ELSE IF format_type = "slack"
            THEN A(3) ++ C(5) ++ TimeStamp ++ A(1)
                 ++ (IF upd # <<>> THEN A(13) ++ C(5) ++ A(2) ++ rv ++ A(1) ++ C(3) ++ A(2) ++ cv ++ A(1) ELSE <<>>)
          ELSE <<>>)

stats_header(format_type, rd) ==
    P("stats_header", 0, 0,
      IF rd.stats = <<>> THEN <<>>
      ELSE IF format_type \in {"wework", "bark", "ntfy", "feishu", "dingtalk"}
        THEN E(1) ++ A(3) ++ C(6) ++ A(4)
      ELSE IF format_type = "telegram" THEN E(1) ++ A(1) ++ C(6) ++ A(2)
      ELSE IF format_type = "slack" THEN E(1) ++ A(2) ++ C(6) ++ A(3)
      ELSE <<>>)

\* the single batch of a report with no stats, no new titles and no failed ids
empty_report_content(md) ==
    P("empty", 0, 0,
      E(1) ++ A(1)
      ++ (IF md = "incremental" THEN C(16) ELSE IF md = "current" THEN C(16) ELSE C(9))
      ++ A(2))

\* f"[{i + 1}/{total_count}]", i counted from 1 here
sequence_display(i, total_count) == A(1) ++ Num(i) ++ A(1) ++ Num(total_count) ++ A(1)

word_header(format_type, i, total_count, stat) ==
    LET sd == sequence_display(i, total_count)
        word == Enc(stat.word)
        count == stat.count
    IN  P("word_header", i, 0,
          IF format_type \in {"wework", "bark", "ntfy", "dingtalk"}
            THEN IF count >= 5
                 THEN E(1) ++ A(1) ++ sd ++ A(3) ++ word ++ A(7) ++ Num(count) ++ A(3) ++ C(1) ++ A(2)
                 ELSE E(1) ++ A(1) ++ sd ++ A(3) ++ word ++ A(5) ++ Num(count) ++ A(1) ++ C(1) ++ A(2)
          ELSE IF format_type = "telegram"
            THEN E(1) ++ A(1) ++ sd ++ A(1) ++ word ++ A(3) ++ Num(count) ++ A(1) ++ C(1) ++ A(2)
          ELSE IF format_type = "feishu"
            THEN IF count >= 10
                 THEN E(1) ++ A(20) ++ sd ++ A(10) ++ word ++ A(23) ++ Num(count) ++ A(8) ++ C(1) ++ A(2)
                 ELSE IF count >= 5
                 THEN E(1) ++ A(20) ++ sd ++ A(10) ++ word ++ A(26) ++ Num(count) ++ A(8) ++ C(1) ++ A(2)
                 ELSE E(1) ++ A(20) ++ sd ++ A(10) ++ word ++ A(5) ++ Num(count) ++ A(1) ++ C(1) ++ A(2)
          ELSE IF format_type = "slack"
            THEN IF count >= 5
                 THEN E(1) ++ A(1) ++ sd ++ A(2) ++ word ++ A(5) ++ Num(count) ++ A(2) ++ C(1) ++ A(2)
                 ELSE E(1) ++ A(1) ++ sd ++ A(2) ++ word ++ A(4) ++ Num(count) ++ A(1) ++ C(1) ++ A(2)
          ELSE <<>>)

\* the platform whose dialect renders the titles of a keyword group
stats_platform(format_type) ==
    IF format_type \in {"wework", "bark"} THEN "wework"
    ELSE IF format_type \in {"telegram", "ntfy", "feishu", "dingtalk", "slack"} THEN format_type
    ELSE "raw"

\* f"  {j}. {formatted_title}\n", plus a blank line unless it is the last title
stats_news_line(format_type, i, j, stat) ==
    LET title_data == stat.titles[j]
        formatted_title ==
            IF stats_platform(format_type) = "raw" THEN Enc(title_data.title)
            ELSE format_title_for_platform(stats_platform(format_type), title_data, TRUE)
    IN  P("news", i, j,
          A(2) ++ Num(j) ++ A(2) ++ formatted_title ++ A(1)
          ++ (IF j < Len(stat.titles) THEN A(1) ELSE <<>>))

separator(format_type) ==
    P("separator", 0, 0,
      IF format_type \in {"wework", "bark"} THEN A(4)
      ELSE IF format_type \in {"telegram", "ntfy", "slack"} THEN A(2)
      ELSE IF format_type = "feishu" THEN A(1) ++ FEISHU_MESSAGE_SEPARATOR ++ A(2)
      ELSE IF format_type = "dingtalk" THEN A(6)
      ELSE <<>>)

new_header(format_type, rd) ==
    LET n == Num(rd.total_new_count)
    IN  P("new_header", 0, 0,
          IF format_type \in {"wework", "bark"}
            THEN A(4) ++ E(1) ++ A(3) ++ C(8) ++ A(4) ++ C(1) ++ A(1) ++ n ++ A(1) ++ C(1) ++ A(3)
          ELSE IF format_type = "telegram"
            THEN A(2) ++ E(1) ++ A(1) ++ C(8) ++ A(2) ++ C(1) ++ A(1) ++ n ++ A(1) ++ C(1) ++ A(3)
          ELSE IF format_type = "ntfy"
            THEN A(2) ++ E(1) ++ A(3) ++ C(8) ++ A(4) ++ C(1) ++ A(1) ++ n ++ A(1) ++ C(1) ++ A(3)
          ELSE IF format_type = "feishu"
            THEN A(1) ++ FEISHU_MESSAGE_SEPARATOR
                 ++ A(2) ++ E(1) ++ A(3) ++ C(8) ++ A(4) ++ C(1) ++ A(1) ++ n ++ A(1) ++ C(1) ++ A(3)
          ELSE IF format_type = "dingtalk"
            THEN A(6) ++ E(1) ++ A(3) ++ C(8) ++ A(4) ++ C(1) ++ A(1) ++ n ++ A(1) ++ C(1) ++ A(3)
          ELSE IF format_type = "slack"
            THEN A(2) ++ E(1) ++ A(2) ++ C(8) ++ A(3) ++ C(1) ++ A(1) ++ n ++ A(1) ++ C(1) ++ A(3)
          ELSE <<>>)

source_header(format_type, s, source_data) ==
    LET name == Enc(source_data.source_name)
        n == Num(Len(source_data.titles))
    IN  P("source_header", s, 0,
          IF format_type \in {"wework", "bark", "ntfy", "feishu", "dingtalk"}
            THEN A(2) ++ name ++ A(4) ++ n ++ A(1) ++ C(1) ++ A(4)
          ELSE IF format_type = "telegram" THEN name ++ A(2) ++ n ++ A(1) ++ C(1) ++ A(4)
          ELSE IF format_type = "slack" THEN A(1) ++ name ++ A(3) ++ n ++ A(1) ++ C(1) ++ A(4)
          ELSE <<>>)

\* the platform that renders the first title of a new-titles source
new_first_platform(format_type) ==
    IF format_type \in {"wework", "bark"} THEN "wework"
    ELSE IF format_type \in {"telegram", "feishu", "dingtalk", "slack"} THEN format_type
    ELSE "raw"

\* the platform that renders the titles after the first
new_rest_platform(format_type) ==
    IF format_type \in {"wework", "telegram", "feishu", "dingtalk", "slack"} THEN format_type
    ELSE "raw"

\* variant: the flag is cleared on the entry of the report itself
clear_is_newInPlace(title_data) ==
    [title_data |-> [title_data EXCEPT !.is_new = FALSE],
     title_data_copy |-> [title_data EXCEPT !.is_new = FALSE]]

\* title_data_copy = title_data.copy(); title_data_copy["is_new"] = False:
\* the entry of the report and the copy after the two statements
clear_is_new(title_data) ==
    [title_data |-> title_data,
     title_data_copy |-> [title_data EXCEPT !.is_new = FALSE]]

\* f"  {j}. {formatted_title}\n" of a copy of the title with is_new cleared
new_news_line(format_type, s, j, source_data) ==
    LET title_data_copy == clear_is_new(source_data.titles[j]).title_data_copy
        platform == IF j = 1 THEN new_first_platform(format_type)
                    ELSE new_rest_platform(format_type)
        formatted_title ==
            IF platform = "raw" THEN Enc(title_data_copy.title)
            ELSE format_title_for_platform(platform, title_data_copy, FALSE)
    IN  P("new_news", s, j, A(2) ++ Num(j) ++ A(2) ++ formatted_title ++ A(1))

failed_header(format_type) ==
    P("failed_header", 0, 0,
      IF format_type = "wework" THEN A(4) ++ C(2) ++ A(3) ++ C(10) ++ A(4)
      ELSE IF format_type = "telegram" THEN A(2) ++ C(2) ++ A(1) ++ C(10) ++ A(2)
      ELSE IF format_type = "ntfy" THEN A(2) ++ C(2) ++ A(3) ++ C(10) ++ A(4)
      ELSE IF format_type = "feishu"
        THEN A(1) ++ FEISHU_MESSAGE_SEPARATOR ++ A(2) ++ C(2) ++ A(3) ++ C(10) ++ A(4)
      ELSE IF format_type = "dingtalk" THEN A(6) ++ C(2) ++ A(3) ++ C(10) ++ A(4)
      ELSE <<>>)

failed_line(format_type, i, id_value) ==
    P("failed", i, 0,
      IF format_type = "feishu" THEN A(2) ++ C(1) ++ A(19) ++ Enc(id_value) ++ A(8)
      ELSE IF format_type = "dingtalk" THEN A(2) ++ C(1) ++ A(3) ++ Enc(id_value) ++ A(3)
      ELSE A(2) ++ C(1) ++ A(1) ++ Enc(id_value) ++ A(1))

----------------------------------------------------------------------------
(* split_content_into_batches: the packing pass.  cx holds the values fixed *)
(* for one call (format_type, max_bytes, report_data, base_header,          *)
(* base_footer); st holds the loop state (current_batch,                    *)
(* current_batch_has_content, batches).                                     *)

\* variant: the test keeps a margin of 20 bytes
FitsWithMargin(cx, test_content) ==
    Bytes(test_content) + Bytes(cx.base_footer) + 20 < cx.max_bytes

\* len(test_content.encode("utf-8")) + len(base_footer.encode("utf-8")) < max_bytes
Fits(cx, test_content) == Bytes(test_content) + Bytes(cx.base_footer) < cx.max_bytes

\* batches.append(current_batch + base_footer) under "if current_batch_has_content"
Flushed(cx, st) ==
    IF st.has_content THEN Append(st.batches, st.current_batch \o cx.base_footer)
    ELSE st.batches

\* variant: the piece is appended whatever the size
PutNeverFlush(cx, st, piece, restart) ==
    [current_batch |-> st.current_batch \o piece, has_content |-> TRUE, batches |-> st.batches]

\* variant: a piece that does not fit flushes the buffer and the repeated
\* headings as two batches
PutDoubleFlush(cx, st, piece, restart) ==
    IF Fits(cx, st.current_batch \o piece)
    THEN [current_batch |-> st.current_batch \o piece, has_content |-> TRUE,
          batches |-> st.batches]
    ELSE [current_batch |-> restart \o piece, has_content |-> TRUE,
          batches |-> Flushed(cx, st) \o <<restart \o cx.base_footer>>]

\* the pattern of every size check of the pass: append the piece when the
\* buffer still fits with the footer, otherwise flush the buffer and start
\* a new one from restart (the headings to repeat) and the piece
Put(cx, st, piece, restart) ==
    IF Fits(cx, st.current_batch \o piece)
    THEN [current_batch |-> st.current_batch \o piece, has_content |-> TRUE,
          batches |-> st.batches]
    ELSE [current_batch |-> restart \o piece, has_content |-> TRUE,
          batches |-> Flushed(cx, st)]

RECURSIVE stats_rest(_, _, _, _)
\* for j in range(start_index, len(stat["titles"])): the titles after the first
stats_rest(cx, st, i, j) ==
    LET stat == cx.report_data.stats[i]
        total_count == Len(cx.report_data.stats)
    IN  IF j > Len(stat.titles) THEN st
        ELSE stats_rest(cx,
                Put(cx, st, stats_news_line(cx.format_type, i, j, stat),
                    cx.base_header \o stats_header(cx.format_type, cx.report_data)
                    \o word_header(cx.format_type, i, total_count, stat)),
                i, j + 1)

\* variant: the heading and the first title are size-checked one by one
stats_groupSplitUnit(cx, st, i) ==
    LET stat == cx.report_data.stats[i]
        total_count == Len(cx.report_data.stats)
        restart == cx.base_header \o stats_header(cx.format_type, cx.report_data)
        wh == word_header(cx.format_type, i, total_count, stat)
        st1 == Put(cx, st, wh, restart)
    IN  stats_rest(cx, st1, i, 1)

\* variant: the loop over the rest starts again at the first title
stats_groupRepeatFirst(cx, st, i) ==
    LET stat == cx.report_data.stats[i]
        total_count == Len(cx.report_data.stats)
        first_news_line == IF stat.titles # <<>>
                           THEN stats_news_line(cx.format_type, i, 1, stat) ELSE <<>>
        word_with_first_news == word_header(cx.format_type, i, total_count, stat) \o first_news_line
        st1 == Put(cx, st, word_with_first_news,
                   cx.base_header \o stats_header(cx.format_type, cx.report_data))
    IN  stats_rest(cx, st1, i, 1)

\* one keyword group: heading + first title as one unit, then the rest
stats_group(cx, st, i) ==
    LET stat == cx.report_data.stats[i]
        total_count == Len(cx.report_data.stats)
        first_news_line == IF stat.titles # <<>>
                           THEN stats_news_line(cx.format_type, i, 1, stat) ELSE <<>>
        word_with_first_news == word_header(cx.format_type, i, total_count, stat) \o first_news_line
        st1 == Put(cx, st, word_with_first_news,
                   cx.base_header \o stats_header(cx.format_type, cx.report_data))
    IN  stats_rest(cx, st1, i, 2)

\* the separator after a group that is not the last: appended only if it fits
stats_separator(cx, st, i) ==
    IF i < Len(cx.report_data.stats) /\ Fits(cx, st.current_batch \o separator(cx.format_type))
    THEN [st EXCEPT !.current_batch = @ \o separator(cx.format_type)]
    ELSE st

RECURSIVE stats_groups(_, _, _)
\* for i, stat in enumerate(report_data["stats"])
stats_groups(cx, st, i) ==
    IF i > Len(cx.report_data.stats) THEN st
    ELSE stats_groups(cx, stats_separator(cx, stats_group(cx, st, i), i), i + 1)

process_stats_section(cx, st) ==
    IF cx.report_data.stats = <<>> THEN st
    ELSE stats_groups(cx, Put(cx, st, stats_header(cx.format_type, cx.report_data), cx.base_header), 1)

RECURSIVE new_rest(_, _, _, _)
\* for j in range(start_index, len(source_data["titles"]))
new_rest(cx, st, s, j) ==
    LET source_data == cx.report_data.new_titles[s]
    IN  IF j > Len(source_data.titles) THEN st
        ELSE new_rest(cx,
                Put(cx, st, new_news_line(cx.format_type, s, j, source_data),
                    cx.base_header \o new_header(cx.format_type, cx.report_data)
                    \o source_header(cx.format_type, s, source_data)),
                s, j + 1)

\* one source of new titles: heading + first title as one unit, the rest,
\* then current_batch += "\n"
new_source(cx, st, s) ==
    LET source_data == cx.report_data.new_titles[s]
        first_news_line == IF source_data.titles # <<>>
                           THEN new_news_line(cx.format_type, s, 1, source_data) ELSE <<>>
        source_with_first_news == source_header(cx.format_type, s, source_data) \o first_news_line
        st1 == Put(cx, st, source_with_first_news,
                   cx.base_header \o new_header(cx.format_type, cx.report_data))
        st2 == new_rest(cx, st1, s, 2)
    IN  [st2 EXCEPT !.current_batch = @ \o P("source_end", s, 0, A(1))]

RECURSIVE new_sources(_, _, _)
\* for source_data in report_data["new_titles"]
new_sources(cx, st, s) ==
    IF s > Len(cx.report_data.new_titles) THEN st
    ELSE new_sources(cx, new_source(cx, st, s), s + 1)

process_new_titles_section(cx, st) ==
    IF cx.report_data.new_titles = <<>> THEN st
    ELSE new_sources(cx, Put(cx, st, new_header(cx.format_type, cx.report_data), cx.base_header), 1)

RECURSIVE failed_lines(_, _, _)
\* for i, id_value in enumerate(report_data["failed_ids"], 1)
failed_lines(cx, st, i) ==
    IF i > Len(cx.report_data.failed_ids) THEN st
    ELSE LET put == Put(cx, st, failed_line(cx.format_type, i, cx.report_data.failed_ids[i]),
                        cx.base_header \o failed_header(cx.format_type))
         IN  \* current_batch_has_content is True after either branch of the turn
             IF put.has_content THEN failed_lines(cx, put, i + 1) ELSE put

process_failed_section(cx, st) ==
    IF cx.report_data.failed_ids = <<>> THEN st
    ELSE failed_lines(cx, Put(cx, st, failed_header(cx.format_type), cx.base_header), 1)

\* variant: without the branch for the report with no content
split_content_into_batchesNoEmptyCase(rd, format_type, upd, max_bytes, md, reverse) ==
    LET cx == [format_type |-> format_type, max_bytes |-> max_bytes, report_data |-> rd,
               base_header |-> base_header(format_type, total_titles_from(rd.stats, 1)),
               base_footer |-> base_footer(format_type, upd)]
        st0 == [current_batch |-> cx.base_header, has_content |-> FALSE, batches |-> <<>>]
        st1 == IF reverse
               THEN process_stats_section(cx, process_new_titles_section(cx, st0))
               ELSE process_new_titles_section(cx, process_stats_section(cx, st0))
    IN  Flushed(cx, process_failed_section(cx, st1))

\* split_content_into_batches(report_data, format_type, update_info, max_bytes, mode)
\* with CONFIG["REVERSE_CONTENT_ORDER"] as reverse
split_content_into_batches(rd, format_type, upd, max_bytes, md, reverse) ==
    LET cx == [format_type |-> format_type, max_bytes |-> max_bytes, report_data |-> rd,
               base_header |-> base_header(format_type, total_titles_from(rd.stats, 1)),
               base_footer |-> base_footer(format_type, upd)]
        st0 == [current_batch |-> cx.base_header, has_content |-> FALSE, batches |-> <<>>]
        st1 == IF reverse
               THEN process_stats_section(cx, process_new_titles_section(cx, st0))
               ELSE process_new_titles_section(cx, process_stats_section(cx, st0))
        st2 == process_failed_section(cx, st1)
    IN  IF rd.stats = <<>> /\ rd.new_titles = <<>> /\ rd.failed_ids = <<>>
        THEN <<cx.base_header \o empty_report_content(md) \o cx.base_footer>>
        ELSE Flushed(cx, st2)

----------------------------------------------------------------------------
(* Channels: the format_type each send function packs with, the one it     *)
(* annotates with, and its byte budget                                     *)

\* send_to_feishu (and its use_compatiable_format variant), send_to_dingtalk,
\* send_to_wework (markdown and text message types), send_to_telegram,
\* send_to_ntfy, send_to_bark, send_to_slack
Channels ==
    { [name |-> "feishu",         split_type |-> "feishu",   header_type |-> "feishu"],
      [name |-> "feishu_outside", split_type |-> "wework",   header_type |-> "feishu"],
      [name |-> "dingtalk",       split_type |-> "dingtalk", header_type |-> "dingtalk"],
      [name |-> "wework",         split_type |-> "wework",   header_type |-> "wework"],
      [name |-> "wework_text",    split_type |-> "wework",   header_type |-> "wework_text"],
      [name |-> "telegram",       split_type |-> "telegram", header_type |-> "telegram"],
      [name |-> "ntfy",           split_type |-> "ntfy",     header_type |-> "ntfy"],
      [name |-> "bark",           split_type |-> "bark",     header_type |-> "bark"],
      [name |-> "slack",          split_type |-> "slack",    header_type |-> "slack"] }

\* ntfy_batch_size = 3800
NTFY_BATCH_SIZE == 3800

\* the byte budget of a channel: configured, except for ntfy
BatchSize(ch, configured) == IF ch.name = "ntfy" THEN NTFY_BATCH_SIZE ELSE configured

----------------------------------------------------------------------------
(* Reports *)

MaxGroups == 2
MaxTitles == 2

\* CONFIG["RANK_THRESHOLD"], copied into every title by the report builder
RANK_THRESHOLD == 5

ShortTitle ==
    [title |-> <<"a", "a">>, url |-> <<>>, mobile_url |-> <<>>, source_name |-> <<"c">>,
     ranks |-> <<7>>, rank_threshold |-> RANK_THRESHOLD, time_display |-> <<>>,
     count |-> 1, is_new |-> FALSE]

LongTitle ==
    [title |-> <<" ", "c", "c", " ", " ", "&", "a", "c", "c", "c", "c", "c", "c">>,
     url |-> <<"a", "a", "a", "a", "a", "a", "a", "a", "a", "a", "a", "a">>,
     mobile_url |-> <<>>, source_name |-> <<"c", "c">>,
     ranks |-> <<3, 12>>, rank_threshold |-> RANK_THRESHOLD,
     time_display |-> <<"a", "a", "a", "a", "a">>, count |-> 3, is_new |-> TRUE]

TitleKinds == {ShortTitle, LongTitle}

\* n titles: the first of kind pat[1], the others of kind pat[2]
Titles(n, pat) == [j \in 1..n |-> IF j = 1 THEN pat[1] ELSE pat[2]]

\* a keyword group; count >= number of titles carried
Group(n, pat) ==
    [word |-> <<"a", "c">>,
     count |-> IF n > 0 /\ pat[1] = LongTitle THEN 6 * n ELSE n,
     titles |-> Titles(n, pat)]

StatsOf(pat) ==
    UNION { { [g \in 1..n |-> Group(sizes[g], pat)] : sizes \in [1..n -> 0..MaxTitles] }
            : n \in 0..MaxGroups }

Source(n, pat) == [source_name |-> <<"c", "a">>, titles |-> Titles(n, pat)]

NewTitlesOf(pat) ==
    { <<>>, <<Source(MaxTitles, pat)>>, <<Source(1, pat), Source(MaxTitles, pat)>> }

RECURSIVE CountNew(_)
CountNew(nt) == IF nt = <<>> THEN 0 ELSE Len(nt[1].titles) + CountNew(Tail(nt))

FailedIds == { <<>>, << <<"a", "a", "a">>, <<"c", "c">> >> }

Reports ==
    UNION { { [stats |-> st, new_titles |-> nt, failed_ids |-> f,
               total_new_count |-> CountNew(nt)]
              : st \in StatsOf(pat), nt \in NewTitlesOf(pat), f \in FailedIds }
            : pat \in TitleKinds \X TitleKinds }

\* the configurations of a run: the configured *_BATCH_SIZE, the mode,
\* update_info and CONFIG["REVERSE_CONTENT_ORDER"]
Version == <<"a", "a", "a">>

Configs ==
    { [batch_size |-> 150, mode |-> "daily", update_info |-> <<>>, reverse_order |-> FALSE],
      [batch_size |-> 300, mode |-> "current", reverse_order |-> FALSE,
       update_info |-> << [remote_version |-> Version, current_version |-> Version] >>],
      [batch_size |-> 420, mode |-> "incremental", update_info |-> <<>>, reverse_order |-> TRUE],
      [batch_size |-> 2000, mode |-> "daily", update_info |-> <<>>, reverse_order |-> FALSE] }

----------------------------------------------------------------------------
(* Multi-account configuration (config/loader.py).  A configuration value *)
(* is a sequence of characters: ";" separates accounts, " " is a blank,   *)
(* "n" stands for a Bark URL without a device key, any other character is *)
(* part of an account.                                                     *)

RECURSIVE split(_, _)
\* str.split(sep)
split(s, sep) ==
    IF \A i \in 1..Len(s) : s[i] # sep THEN <<s>>
    ELSE LET i == CHOOSE i \in 1..Len(s) :
                      s[i] = sep /\ \A j \in 1..(i - 1) : s[j] # sep
         IN  <<SubSeq(s, 1, i - 1)>> \o split(SubSeq(s, i + 1, Len(s)), sep)

RECURSIVE strip(_)
\* str.strip()
strip(s) ==
    IF s = <<>> THEN s
    ELSE IF s[1] = " " THEN strip(Tail(s))
    ELSE IF s[Len(s)] = " " THEN strip(SubSeq(s, 1, Len(s) - 1))
    ELSE s

\* variant: the empty entries are dropped from the list
parse_multi_account_configCompact(config_value, sep) ==
    IF config_value = <<>> THEN <<>>
    ELSE LET parts == split(config_value, sep)
             accounts == [i \in 1..Len(parts) |-> strip(parts[i])]
             filled(x) == x # <<>>
         IN  SelectSeq(accounts, filled)

parse_multi_account_config(config_value, sep) ==
    IF config_value = <<>> THEN <<>>
    ELSE LET parts == split(config_value, sep)
             accounts == [i \in 1..Len(parts) |-> strip(parts[i])]
         IN  IF \A i \in 1..Len(accounts) : accounts[i] = <<>> THEN <<>> ELSE accounts

\* variant: the empty lists take part in the comparison of the lengths
validate_paired_configsAllLists(configs, required_keys) ==
    LET non_empty_configs == {k \in DOMAIN configs : configs[k] # <<>>}
        unique_lengths == {Len(configs[k]) : k \in DOMAIN configs}
    IN  IF non_empty_configs = {} THEN <<TRUE, 0>>
        ELSE IF \E key \in required_keys : key \notin non_empty_configs THEN <<TRUE, 0>>
        ELSE IF Cardinality(unique_lengths) > 1 THEN <<FALSE, 0>>
        ELSE <<TRUE, CHOOSE n \in unique_lengths : TRUE>>

\* configs: a function from configuration names to account lists;
\* required_keys: a set of names (empty for None); result <<valid, count>>
validate_paired_configs(configs, required_keys) ==
    LET non_empty_configs == {k \in DOMAIN configs : configs[k] # <<>>}
        unique_lengths == {Len(configs[k]) : k \in non_empty_configs}
    IN  IF non_empty_configs = {} THEN <<TRUE, 0>>
        ELSE IF \E key \in required_keys : key \notin non_empty_configs THEN <<TRUE, 0>>
        ELSE IF Cardinality(unique_lengths) > 1 THEN <<FALSE, 0>>
        ELSE <<TRUE, CHOOSE n \in unique_lengths : TRUE>>

\* accounts[:n] of a Python list
Slice(accounts, n) ==
    IF n >= 0 THEN SubSeq(accounts, 1, IF n < Len(accounts) THEN n ELSE Len(accounts))
    ELSE SubSeq(accounts, 1, IF Len(accounts) + n > 0 THEN Len(accounts) + n ELSE 0)

\* variant: the list is never cut
limit_accountsUnlimited(accounts, max_count) == accounts

limit_accounts(accounts, max_count) ==
    IF Len(accounts) > max_count THEN Slice(accounts, max_count) ELSE accounts

\* variant: the lookup answers with the first entry that is not blank
get_account_at_indexFirstFilled(accounts, index, default) ==
    IF \E i \in 1..Len(accounts) : accounts[i] # <<>>
    THEN accounts[CHOOSE i \in 1..Len(accounts) :
                      accounts[i] # <<>> /\ \A j \in 1..(i - 1) : accounts[j] = <<>>]
    ELSE default

\* index counts from 0, as in the source
get_account_at_index(accounts, index, default) ==
    IF index < Len(accounts)
    THEN (IF accounts[index + 1] # <<>> THEN accounts[index + 1] ELSE default)
    ELSE default

VARIABLES
    call,          \* a call of a configuration helper: the function and its arguments
    returned       \* what the call returned, <<>> while it has not

cvars == <<call, returned>>

\* the helper variables while no helper call is modelled
NoCall ==
    [fn |-> "none", config_value |-> <<>>, configs |-> <<>>, required_keys |-> {},
     accounts |-> <<>>, max_count |-> 0, text |-> <<>>, max_bytes |-> 0]

HelpersIdle ==
    /\ call = NoCall
    /\ returned = <<>>

----------------------------------------------------------------------------
(* Push window and push record (notification/push_record.py) *)

\* PushRecordManager.is_in_time_range: the half-open window [start, end)
is_in_time_range(time, start, end) == start <= time /\ time < end

\* PushRecordManager.has_pushed_today(): called without a report type, so
\* the lookup is by calendar date
has_pushed_today(records, date) == \E rec \in records : rec.date = date

\* PushRecordManager.record_push(report_type): create the record of
\* (report type, date) unless it exists
record_push(records, report_type, date) ==
    records \cup {[report_type |-> report_type, date |-> date]}

----------------------------------------------------------------------------
(* Dispatch (notification/manager.py, notification/channels/*.py) *)

VARIABLES
    CONFIG,        \* the loaded configuration the dispatcher reads
    now,           \* time of day of the wall clock
    today,         \* calendar date of the wall clock
    push_records,  \* the persisted PushRecords: a set of [report_type, date]
    push_writes,   \* history: the PushRecord creations, in order
    run            \* run[r]: the state of the r-th call of send_to_notifications

dvars == <<CONFIG, now, today, push_records, push_writes, run>>

\* bounds of the dispatch model
MaxRuns == 2
MaxBatches == 2
MaxTime == 2
MaxDays == 2

Runs == 1..MaxRuns

\* the order of the channel blocks of send_to_notifications
ChannelOrder ==
    <<"feishu", "feishu_outside", "dingtalk", "wework", "telegram", "ntfy", "bark",
      "slack", "email">>

\* how a channel's send function treats a failed batch
Kind(name) ==
    IF name \in {"feishu", "feishu_outside", "dingtalk", "wework", "telegram", "slack"}
    THEN "failfast"
    ELSE name

\* the configuration key of a single-list channel
UrlKey(name) ==
    CASE name = "feishu" -> "FEISHU_WEBHOOK_URL"
      [] name = "feishu_outside" -> "FEISHU_OUTSIDE_WEBHOOK_URL"
      [] name = "dingtalk" -> "DINGTALK_WEBHOOK_URL"
      [] name = "wework" -> "WEWORK_WEBHOOK_URL"
      [] name = "bark" -> "BARK_URL"
      [] name = "slack" -> "SLACK_WEBHOOK_URL"

\* an account of a channel: its primary value and its paired value
Account(id, second) == [id |-> id, second |-> second]

\* urls = parse_multi_account_config(...); if urls: urls = limit_accounts(...)
ResolveUrls(cfg, name) ==
    LET urls == parse_multi_account_config(cfg[UrlKey(name)], ";")
        limited == limit_accounts(urls, cfg.MAX_ACCOUNTS_PER_CHANNEL)
    IN  IF urls = <<>> THEN [entered |-> FALSE, accounts |-> <<>>]
        ELSE [entered |-> TRUE,
              accounts |-> [i \in 1..Len(limited) |-> Account(limited[i], <<>>)]]

\* variant: the blank entries are dropped from each list before pairing
ResolveTelegramCompacted(cfg) ==
    LET telegram_tokens == parse_multi_account_config(cfg.TELEGRAM_BOT_TOKEN, ";")
        telegram_chat_ids == parse_multi_account_config(cfg.TELEGRAM_CHAT_ID, ";")
        checked == validate_paired_configs(
                       [k \in {"bot_token", "chat_id"} |->
                           IF k = "bot_token" THEN telegram_tokens ELSE telegram_chat_ids],
                       {"bot_token", "chat_id"})
        filled(x) == x # <<>>
        tokens == limit_accounts(SelectSeq(telegram_tokens, filled), cfg.MAX_ACCOUNTS_PER_CHANNEL)
        chat_ids == Slice(SelectSeq(telegram_chat_ids, filled), Len(tokens))
    IN  IF telegram_tokens # <<>> /\ telegram_chat_ids # <<>> /\ checked[1] /\ checked[2] > 0
        THEN [entered |-> TRUE,
              accounts |-> [i \in 1..Len(tokens) |-> Account(tokens[i], chat_ids[i])]]
        ELSE [entered |-> FALSE, accounts |-> <<>>]

ResolveTelegram(cfg) ==
    LET telegram_tokens == parse_multi_account_config(cfg.TELEGRAM_BOT_TOKEN, ";")
        telegram_chat_ids == parse_multi_account_config(cfg.TELEGRAM_CHAT_ID, ";")
        checked == validate_paired_configs(
                       [k \in {"bot_token", "chat_id"} |->
                           IF k = "bot_token" THEN telegram_tokens ELSE telegram_chat_ids],
                       {"bot_token", "chat_id"})
        tokens == limit_accounts(telegram_tokens, cfg.MAX_ACCOUNTS_PER_CHANNEL)
        chat_ids == Slice(telegram_chat_ids, Len(tokens))
    IN  IF telegram_tokens # <<>> /\ telegram_chat_ids # <<>> /\ checked[1] /\ checked[2] > 0
        THEN [entered |-> TRUE,
              accounts |-> [i \in 1..Len(tokens) |-> Account(tokens[i], chat_ids[i])]]
        ELSE [entered |-> FALSE, accounts |-> <<>>]

\* variant: the ntfy block without the comparison of the list lengths
ResolveNtfyUnchecked(cfg) ==
    LET ntfy_topics == parse_multi_account_config(cfg.NTFY_TOPIC, ";")
        ntfy_tokens == parse_multi_account_config(cfg.NTFY_TOKEN, ";")
        topics == limit_accounts(ntfy_topics, cfg.MAX_ACCOUNTS_PER_CHANNEL)
        tokens == IF ntfy_tokens # <<>> THEN Slice(ntfy_tokens, Len(topics)) ELSE ntfy_tokens
    IN  IF cfg.NTFY_SERVER_URL # <<>> /\ ntfy_topics # <<>>
        THEN [entered |-> TRUE,
              accounts |-> [i \in 1..Len(topics) |->
                               Account(topics[i], get_account_at_index(tokens, i - 1, <<>>))]]
        ELSE [entered |-> FALSE, accounts |-> <<>>]

ResolveNtfy(cfg) ==
    LET ntfy_topics == parse_multi_account_config(cfg.NTFY_TOPIC, ";")
        ntfy_tokens == parse_multi_account_config(cfg.NTFY_TOKEN, ";")
        topics == limit_accounts(ntfy_topics, cfg.MAX_ACCOUNTS_PER_CHANNEL)
        tokens == IF ntfy_tokens # <<>> THEN Slice(ntfy_tokens, Len(topics)) ELSE ntfy_tokens
    IN  IF cfg.NTFY_SERVER_URL # <<>> /\ ntfy_topics # <<>>
           /\ ~(ntfy_tokens # <<>> /\ Len(ntfy_tokens) # Len(ntfy_topics))
        THEN [entered |-> TRUE,
              accounts |-> [i \in 1..Len(topics) |->
                               Account(topics[i], get_account_at_index(tokens, i - 1, <<>>))]]
        ELSE [entered |-> FALSE, accounts |-> <<>>]

\* if email_from and email_password and email_to
ResolveEmail(cfg) ==
    IF cfg.EMAIL_FROM # <<>> /\ cfg.EMAIL_PASSWORD # <<>> /\ cfg.EMAIL_TO # <<>>
    THEN [entered |-> TRUE, accounts |-> <<Account(cfg.EMAIL_FROM, cfg.EMAIL_TO)>>]
    ELSE [entered |-> FALSE, accounts |-> <<>>]

\* the accounts of a channel block, and whether the block is entered
Resolve(cfg, name) ==
    CASE name = "telegram" -> ResolveTelegram(cfg)
      [] name = "ntfy" -> ResolveNtfy(cfg)
      [] name = "email" -> ResolveEmail(cfg)
      [] OTHER -> ResolveUrls(cfg, name)

\* the guard of the account loop: if url / if token and chat_id / if topic
Sendable(name, account) ==
    account.id # <<>> /\ (name = "telegram" => account.second # <<>>)

\* send_to_bark: the device key is the first path segment of the URL
device_key(bark_url) == IF bark_url[1] = "n" THEN <<>> ELSE bark_url

\* variant: all(...) of a list of booleans
anyAll(results_list) == \A i \in 1..Len(results_list) : results_list[i]
\* any(...) of a list of booleans
any(results_list) == \E i \in 1..Len(results_list) : results_list[i]

\* variant: true as soon as a channel block has stored a result
any_valuesConfigured(results) == DOMAIN results # {}

\* any(results.values())
any_values(results) == \E name \in DOMAIN results : results[name]

\* the answers of a transport to one transmission
Outcomes == {"accepted", "rejected", "rate_limited", "exception"}

\* variant: every send function backs off and retries after a rate limit
after_batchRetryEverywhere(kind, outcome, k, total) ==
    IF outcome = "accepted"
    THEN [counted |-> TRUE, step |-> IF k < total THEN "sleep" ELSE "next"]
    ELSE IF outcome = "rate_limited"
    THEN [counted |-> FALSE, step |-> "backoff"]
    ELSE IF kind = "failfast"
    THEN [counted |-> FALSE, step |-> "return_false"]
    ELSE [counted |-> FALSE, step |-> "next"]

\* variant: every send function returns at a batch that was not accepted
after_batchFailFast(kind, outcome, k, total) ==
    IF outcome = "accepted"
    THEN [counted |-> TRUE, step |-> IF k < total THEN "sleep" ELSE "next"]
    ELSE [counted |-> FALSE, step |-> "return_false"]

\* variant: every send function goes on after a batch that was not accepted
after_batchCountSuccess(kind, outcome, k, total) ==
    IF outcome = "accepted"
    THEN [counted |-> TRUE, step |-> IF k < total THEN "sleep" ELSE "next"]
    ELSE IF kind = "ntfy" /\ outcome = "rate_limited"
    THEN [counted |-> FALSE, step |-> "backoff"]
    ELSE [counted |-> FALSE, step |-> "next"]

\* what the batch loop of a send function does after transmission k of
\* total: whether the batch counts as sent, and the next step
after_batch(kind, outcome, k, total) ==
    IF outcome = "accepted"
    THEN [counted |-> TRUE, step |-> IF k < total THEN "sleep" ELSE "next"]
    ELSE IF kind = "failfast"
    THEN [counted |-> FALSE, step |-> "return_false"]
    ELSE IF kind = "ntfy" /\ outcome = "rate_limited"
    THEN [counted |-> FALSE, step |-> "backoff"]
    ELSE [counted |-> FALSE, step |-> "next"]

\* the return value of a send function whose batch loop ran to its end
loop_result(kind, success) == IF kind = "failfast" THEN TRUE ELSE success > 0

\* variant: a send that fails ends the account loop of its channel
ReturnAbortOnFailure(rr, result) ==
    [rr EXCEPT !.results_list = Append(@, result),
               !.last_send = [channel |-> ChannelOrder[rr.ch],
                              account |-> rr.accounts[rr.idx], total |-> rr.total,
                              accepted |-> rr.success, result |-> result,
                              log |-> rr.log],
               !.idx = IF result THEN @ + 1 ELSE Len(rr.accounts) + 1,
               !.pc = "account"]

\* the send function returns: the account loop appends the result
Return(rr, result) ==
    [rr EXCEPT !.results_list = Append(@, result),
               !.last_send = [channel |-> ChannelOrder[rr.ch],
                              account |-> rr.accounts[rr.idx], total |-> rr.total,
                              accepted |-> rr.success, result |-> result,
                              log |-> rr.log],
               !.idx = @ + 1,
               !.pc = "account"]

\* variant: no send function reverses the list of annotated batches
batch_numberAscending(kind, k, total) == k

\* the marker number of the batch at position k of the list a send function
\* walks through: ntfy and Bark reverse the list of annotated batches
batch_number(kind, k, total) ==
    IF kind \in {"ntfy", "bark"} THEN total - k + 1 ELSE k

\* variant: the Title header counts the positions of the loop
title_numberLoopIndex(kind, k, total) ==
    IF kind = "ntfy" /\ total > 1 THEN k ELSE 0

\* ntfy: the number k of the "(k/N)" that headers["Title"] carries when the
\* batch at position k is posted and posted again; 0 when the header has no
\* counter (a single batch, or a channel without a Title header)
title_number(kind, k, total) ==
    IF kind = "ntfy" /\ total > 1 THEN total - k + 1 ELSE 0

\* variant: the second requests.post sends the batch of the position before
retry_batchPrevious(k) == IF k > 1 THEN k - 1 ELSE k

\* ntfy: the position whose batch the second requests.post sends again
retry_batch(k) == k

\* the batch loop moves on to the next batch or ends
LoopNext(rr) ==
    IF rr.k < rr.total
    THEN [rr EXCEPT !.k = @ + 1, !.pc = "send"]
    ELSE Return(rr, loop_result(Kind(ChannelOrder[rr.ch]), rr.success))

\* variant: the gate without the time-window test
push_window_gateNoWindow(w, time, records, date) ==
    IF w.ENABLED /\ w.ONCE_PER_DAY /\ has_pushed_today(records, date) THEN "once"
    ELSE "passed"

\* variant: the gate without the once-per-day test
push_window_gateNoOnce(w, time, records, date) ==
    IF w.ENABLED /\ ~is_in_time_range(time, w.START, w.END) THEN "window"
    ELSE "passed"

\* the push-window gate of send_to_notifications: "window" and "once" return
\* the empty result map, "passed" goes on to the channels
push_window_gate(w, time, records, date) ==
    IF w.ENABLED /\ ~is_in_time_range(time, w.START, w.END) THEN "window"
    ELSE IF w.ENABLED /\ w.ONCE_PER_DAY /\ has_pushed_today(records, date) THEN "once"
    ELSE "passed"

\* the channel loop moves on to the next channel block, or to the record step
NextChannel(rr) ==
    IF rr.ch < Len(ChannelOrder)
    THEN [rr EXCEPT !.ch = @ + 1, !.pc = "channel"]
    ELSE [rr EXCEPT !.pc = "record"]

\* results[name] = value
SetResult(rr, name, value) ==
    [rr EXCEPT !.results = (name :> value) @@ @]

\* the report types of the runs
ReportTypes == {"daily_summary", "incremental_update"}

NoChannels ==
    [FEISHU_WEBHOOK_URL |-> <<>>, FEISHU_OUTSIDE_WEBHOOK_URL |-> <<>>,
     DINGTALK_WEBHOOK_URL |-> <<>>, WEWORK_WEBHOOK_URL |-> <<>>,
     TELEGRAM_BOT_TOKEN |-> <<>>, TELEGRAM_CHAT_ID |-> <<>>,
     NTFY_SERVER_URL |-> <<>>, NTFY_TOPIC |-> <<>>, NTFY_TOKEN |-> <<>>,
     BARK_URL |-> <<>>, SLACK_WEBHOOK_URL |-> <<>>,
     EMAIL_FROM |-> <<>>, EMAIL_PASSWORD |-> <<>>, EMAIL_TO |-> <<>>,
     MAX_ACCOUNTS_PER_CHANNEL |-> 3,
     PUSH_WINDOW |-> [ENABLED |-> FALSE, ONCE_PER_DAY |-> FALSE, START |-> 1, END |-> MaxTime]]

\* the channel configurations of the modelled deployments
ChannelConfigs ==
    { NoChannels,
      [NoChannels EXCEPT !.FEISHU_WEBHOOK_URL = <<"a", ";", " ", "b">>,
                         !.NTFY_SERVER_URL = <<"s">>,
                         !.NTFY_TOPIC = <<"a">>],
      [NoChannels EXCEPT !.TELEGRAM_BOT_TOKEN = <<"a", ";", ";", "b">>,
                         !.TELEGRAM_CHAT_ID = <<"c", ";", "d", ";", "e">>,
                         !.BARK_URL = <<"n", ";", "a">>],
      [NoChannels EXCEPT !.FEISHU_WEBHOOK_URL = <<" ", ";", ";", "a">>,
                         !.MAX_ACCOUNTS_PER_CHANNEL = 2,
                         !.DINGTALK_WEBHOOK_URL = <<"a">>,
                         !.TELEGRAM_BOT_TOKEN = <<"a", ";", "b">>,
                         !.TELEGRAM_CHAT_ID = <<"a">>,
                         !.EMAIL_FROM = <<"a">>, !.EMAIL_PASSWORD = <<"a">>,
                         !.EMAIL_TO = <<"b">>],
      [NoChannels EXCEPT !.FEISHU_OUTSIDE_WEBHOOK_URL = <<"a">>,
                         !.WEWORK_WEBHOOK_URL = <<";", "b">>,
                         !.SLACK_WEBHOOK_URL = <<"a">>,
                         !.NTFY_SERVER_URL = <<"s">>,
                         !.NTFY_TOPIC = <<"a", ";", "b">>,
                         !.NTFY_TOKEN = <<"a">>,
                         !.EMAIL_FROM = <<"a">>, !.EMAIL_PASSWORD = <<"a">>,
                         !.EMAIL_TO = <<"b">>],
      [NoChannels EXCEPT !.DINGTALK_WEBHOOK_URL = <<"a", ";", "b", ";", "a">>,
                         !.MAX_ACCOUNTS_PER_CHANNEL = 2],
      [NoChannels EXCEPT !.SLACK_WEBHOOK_URL = <<"a">>,
                         !.MAX_ACCOUNTS_PER_CHANNEL = 0],
      [NoChannels EXCEPT !.NTFY_SERVER_URL = <<"s">>,
                         !.NTFY_TOPIC = <<"a", ";", ";", "b", ";", "c">>,
                         !.NTFY_TOKEN = <<";", "d", ";", "e", ";", "a">>,
                         !.MAX_ACCOUNTS_PER_CHANNEL = 3] }

\* CONFIG["PUSH_WINDOW"]
PushWindows ==
    { [ENABLED |-> FALSE, ONCE_PER_DAY |-> FALSE, START |-> 1, END |-> MaxTime],
      [ENABLED |-> TRUE, ONCE_PER_DAY |-> FALSE, START |-> 1, END |-> MaxTime],
      [ENABLED |-> TRUE, ONCE_PER_DAY |-> TRUE, START |-> 1, END |-> MaxTime],
      [ENABLED |-> FALSE, ONCE_PER_DAY |-> TRUE, START |-> 1, END |-> MaxTime] }

\* the configurations the dispatcher is run under
DispatchConfigs ==
    { [c EXCEPT !.PUSH_WINDOW = w] : c \in ChannelConfigs, w \in PushWindows }

\* the configurations of the deployment whose successive runs are modelled
DailyConfigs ==
    { [NoChannels EXCEPT !.NTFY_SERVER_URL = <<"s">>,
                         !.NTFY_TOPIC = <<"a">>,
                         !.EMAIL_FROM = <<"a">>, !.EMAIL_PASSWORD = <<"a">>,
                         !.EMAIL_TO = <<"b">>,
                         !.PUSH_WINDOW = w] : w \in PushWindows }

\* a run that has not been started
IdleRun ==
    [pc |-> "idle", report_type |-> "", started_at |-> 0, started_on |-> 0, gate |-> "",
     results |-> <<>>, ch |-> 1, accounts |-> <<>>, idx |-> 1,
     results_list |-> <<>>, total |-> 0, k |-> 0, success |-> 0, calls |-> 0,
     log |-> <<>>, attempted |-> {}, last_send |-> <<>>]

DispatchIdle ==
    /\ CONFIG = NoChannels
    /\ now = 0
    /\ today = 1
    /\ push_records = {}
    /\ push_writes = <<>>
    /\ run = [r \in Runs |-> IdleRun]
----------------------------------------------------------------------------
(* The pipeline of one send function: pack, then annotate *)

\* the pipeline variables while the dispatcher is modelled
PipelineIdle ==
    /\ report_data = [stats |-> <<>>, new_titles |-> <<>>, failed_ids |-> <<>>,
                      total_new_count |-> 0]
    /\ channel = CHOOSE c \in Channels : c.name = "feishu"
    /\ budget = 0
    /\ mode = "daily"
    /\ update_info = <<>>
    /\ reverse_order = FALSE
    /\ batches = <<>>
    /\ payloads = <<>>
    /\ pc = "unused"

Init ==
    /\ HelpersIdle
    /\ report_data \in Reports
    /\ channel \in Channels
    /\ \E cf \in Configs :
        /\ budget = BatchSize(channel, cf.batch_size)
        /\ mode = cf.mode
        /\ update_info = cf.update_info
        /\ reverse_order = cf.reverse_order
    /\ batches = <<>>
    /\ payloads = <<>>
    /\ pc = "start"
    /\ DispatchIdle

\* header_reserve = get_max_batch_header_size(...);
\* batches = split_content_into_batches(..., max_bytes=batch_size - header_reserve, ...)
\* report_data as split_content_into_batches leaves it: the new-titles loops
\* go over every title of every source
report_data_after_split(rd) ==
    [rd EXCEPT !.new_titles =
        [s \in 1..Len(rd.new_titles) |->
            [rd.new_titles[s] EXCEPT !.titles =
                [j \in 1..Len(rd.new_titles[s].titles) |->
                    clear_is_new(rd.new_titles[s].titles[j]).title_data]]]]

Split ==
    /\ pc = "start"
    /\ batches' = split_content_into_batches(report_data, channel.split_type, update_info,
                      budget - get_max_batch_header_size(channel.header_type), mode,
                      reverse_order)
    /\ report_data' = report_data_after_split(report_data)
    /\ pc' = "split"
    /\ UNCHANGED <<channel, budget, mode, update_info, reverse_order, payloads>>
    /\ UNCHANGED <<dvars, cvars>>

\* batches = add_batch_headers(batches, format_type, batch_size)
Annotate ==
    /\ pc = "split"
    /\ payloads' = add_batch_headers(batches, channel.header_type, budget)
    /\ pc' = "annotated"
    /\ UNCHANGED <<report_data, channel, budget, mode, update_info, reverse_order, batches>>
    /\ UNCHANGED <<dvars, cvars>>

Next == Split \/ Annotate

\* most failed sources of a long report
MaxFailed == 100

\* a report of n failed sources and nothing else
FailedReport(n) ==
    [stats |-> <<>>, new_titles |-> <<>>, total_new_count |-> 0,
     failed_ids |-> [i \in 1..n |-> <<"a", "a", "a">>]]

\* a configured *_BATCH_SIZE under which header, failed-sources heading, one
\* failed-source line and footer just fit the packer's max_bytes
TightBatchSize(ch) ==
    get_max_batch_header_size(ch.header_type)
    + Bytes(base_header(ch.split_type, 0) \o failed_header(ch.split_type)
            \o failed_line(ch.split_type, 1, <<"a", "a", "a">>)
            \o base_footer(ch.split_type, <<>>))
    + 1

\* the pipeline on long reports under a small budget: many batches
ManyInit ==
    /\ HelpersIdle
    /\ channel \in Channels
    /\ report_data \in {FailedReport(n) : n \in 1..MaxFailed}
    /\ budget = BatchSize(channel, TightBatchSize(channel))
    /\ mode = "daily"
    /\ update_info = <<>>
    /\ reverse_order = FALSE
    /\ batches = <<>>
    /\ payloads = <<>>
    /\ pc = "start"
    /\ DispatchIdle

----------------------------------------------------------------------------
(* The actions of send_to_notifications *)

\* the runs start in the order of their numbers
InOrder(r) == \A q \in 1..(r - 1) : run[q].pc # "idle"

\* no other run is between its start and its return
NonOverlapping(r) == \A q \in Runs \ {r} : run[q].pc \in {"idle", "done"}

\* send_to_notifications returns: its local variables are gone, the result
\* map and the history of the run remain
Returned(rr) ==
    [IdleRun EXCEPT !.pc = "done", !.report_type = rr.report_type,
                    !.started_at = rr.started_at, !.started_on = rr.started_on,
                    !.gate = rr.gate, !.results = rr.results,
                    !.calls = rr.calls, !.attempted = rr.attempted]

\* the clock is read by the gate and by the record step only, so the model
\* lets time pass between runs and before the record step
Quiet == \A r \in Runs : run[r].pc \in {"idle", "record", "done"}

\* send_to_notifications is called: the push-window gate
StartRun(r) ==
    /\ run[r].pc = "idle"
    /\ InOrder(r)
    /\ \E report_type \in ReportTypes :
        LET gate == push_window_gate(CONFIG.PUSH_WINDOW, now, push_records, today)
        IN  run' = [run EXCEPT ![r] =
                       [@ EXCEPT !.report_type = report_type,
                                 !.started_at = now,
                                 !.started_on = today,
                                 !.gate = gate,
                                 !.pc = IF gate = "passed" THEN "channel" ELSE "done"]]
    /\ UNCHANGED <<CONFIG, now, today, push_records, push_writes>>
    /\ UNCHANGED <<pvars, cvars>>

\* the head of a channel block: resolve the accounts
EnterChannel(r) ==
    LET rr == run[r]
        name == ChannelOrder[rr.ch]
        block == Resolve(CONFIG, name)
    IN  /\ rr.pc = "channel"
        /\ IF ~block.entered
           THEN run' = [run EXCEPT ![r] = NextChannel(rr)]
           ELSE IF name = "email"
           THEN \E html_file_exists \in BOOLEAN :  \* Path(html_file_path).exists()
                   run' = [run EXCEPT ![r] =
                              IF html_file_exists
                              THEN [rr EXCEPT !.accounts = block.accounts, !.pc = "smtp"]
                              ELSE NextChannel(SetResult(rr, name, FALSE))]
           ELSE \E total \in 1..MaxBatches :  \* len(batches) for this run's report
                   run' = [run EXCEPT ![r] =
                              [rr EXCEPT !.accounts = block.accounts,
                                         !.idx = 1,
                                         !.results_list = <<>>,
                                         !.total = total,
                                         !.pc = "account"]]
        /\ UNCHANGED <<CONFIG, now, today, push_records, push_writes>>
        /\ UNCHANGED <<pvars, cvars>>

\* one turn of the account loop, or its end: results[name] = any(results_list)
EnterAccount(r) ==
    LET rr == run[r]
        name == ChannelOrder[rr.ch]
    IN  /\ rr.pc = "account"
        /\ run' = [run EXCEPT ![r] =
               IF rr.idx > Len(rr.accounts)
               THEN NextChannel(SetResult(rr, name, any(rr.results_list)))
               ELSE IF ~Sendable(name, rr.accounts[rr.idx])
               THEN [rr EXCEPT !.idx = @ + 1]
               ELSE LET called == [rr EXCEPT !.attempted = @ \cup {<<name, rr.idx>>},
                                             !.success = 0, !.log = <<>>]
                    IN  IF name = "bark" /\ device_key(rr.accounts[rr.idx].id) = <<>>
                        THEN Return(called, FALSE)
                        ELSE [called EXCEPT !.k = 1, !.pc = "send"]]
        /\ UNCHANGED <<CONFIG, now, today, push_records, push_writes>>
        /\ UNCHANGED <<pvars, cvars>>

\* requests.post of batch k and the handling of its answer
Transmit(r) ==
    LET rr == run[r]
        kind == Kind(ChannelOrder[rr.ch])
    IN  /\ rr.pc = "send"
        /\ \E outcome \in Outcomes :
            LET after == after_batch(kind, outcome, rr.k, rr.total)
                sent == [rr EXCEPT !.calls = @ + 1,
                                   !.success = IF after.counted THEN @ + 1 ELSE @,
                                   !.log = Append(@, [batch |-> batch_number(kind, rr.k, rr.total),
                                                      outcome |-> outcome,
                                                      title |-> title_number(kind, rr.k, rr.total)])]
            IN  run' = [run EXCEPT ![r] =
                    CASE after.step = "sleep" -> [sent EXCEPT !.pc = "sleep"]
                      [] after.step = "backoff" -> [sent EXCEPT !.pc = "backoff"]
                      [] after.step = "return_false" -> Return(sent, FALSE)
                      [] after.step = "next" -> LoopNext(sent)]
        /\ UNCHANGED <<CONFIG, now, today, push_records, push_writes>>
        /\ UNCHANGED <<pvars, cvars>>

\* time.sleep between two batches
Sleep(r) ==
    /\ run[r].pc = "sleep"
    /\ run' = [run EXCEPT ![r] = [@ EXCEPT !.k = @ + 1, !.pc = "send"]]
    /\ UNCHANGED <<CONFIG, now, today, push_records, push_writes>>
    /\ UNCHANGED <<pvars, cvars>>

\* ntfy: time.sleep(10) after status 429
Backoff(r) ==
    /\ run[r].pc = "backoff"
    /\ run' = [run EXCEPT ![r] = [@ EXCEPT !.pc = "retry"]]
    /\ UNCHANGED <<CONFIG, now, today, push_records, push_writes>>
    /\ UNCHANGED <<pvars, cvars>>

\* ntfy: the second requests.post of the batch
Retransmit(r) ==
    LET rr == run[r]
    IN  /\ rr.pc = "retry"
        /\ \E outcome \in Outcomes :
            run' = [run EXCEPT ![r] =
                       LoopNext([rr EXCEPT !.calls = @ + 1,
                                           !.success = IF outcome = "accepted"
                                                       THEN @ + 1 ELSE @,
                                           !.log = Append(@,
                                               [batch |-> batch_number(Kind(ChannelOrder[rr.ch]),
                                                                       retry_batch(rr.k), rr.total),
                                                outcome |-> outcome,
                                                title |-> title_number(Kind(ChannelOrder[rr.ch]),
                                                                       rr.k, rr.total)])])]
        /\ UNCHANGED <<CONFIG, now, today, push_records, push_writes>>
        /\ UNCHANGED <<pvars, cvars>>

\* send_to_email: one SMTP session
SendEmail(r) ==
    LET rr == run[r]
    IN  /\ rr.pc = "smtp"
        /\ \E outcome \in {"accepted", "exception"} :
            LET result == (outcome = "accepted")
            IN  run' = [run EXCEPT ![r] =
                    NextChannel(SetResult([rr EXCEPT !.calls = @ + 1], "email", result))]
        /\ UNCHANGED <<CONFIG, now, today, push_records, push_writes>>
        /\ UNCHANGED <<pvars, cvars>>

\* the record step and the return of the result map
RecordPush(r) ==
    LET rr == run[r]
        w == CONFIG.PUSH_WINDOW
        key == [report_type |-> rr.report_type, date |-> today]
    IN  /\ rr.pc = "record"
        /\ IF w.ENABLED /\ w.ONCE_PER_DAY /\ any_values(rr.results)
           THEN /\ push_records' = record_push(push_records, rr.report_type, today)
                /\ push_writes' = IF key \in push_records THEN push_writes
                                  ELSE Append(push_writes, [run |-> r, report_type |-> rr.report_type, date |-> today])
           ELSE UNCHANGED <<push_records, push_writes>>
        /\ run' = [run EXCEPT ![r] = Returned(rr)]
        /\ UNCHANGED <<CONFIG, now, today>>
        /\ UNCHANGED <<pvars, cvars>>

\* the wall clock advances
Tick ==
    /\ Quiet
    /\ IF now < MaxTime
       THEN now' = now + 1 /\ today' = today
       ELSE today < MaxDays /\ now' = 0 /\ today' = today + 1
    /\ UNCHANGED <<CONFIG, push_records, push_writes, run>>
    /\ UNCHANGED <<pvars, cvars>>

\* the steps of a run that has started
Step(r) ==
    \/ EnterChannel(r)
    \/ EnterAccount(r)
    \/ Transmit(r)
    \/ Sleep(r)
    \/ Backoff(r)
    \/ Retransmit(r)
    \/ SendEmail(r)
    \/ RecordPush(r)

DispatchInit ==
    /\ HelpersIdle
    /\ CONFIG \in DispatchConfigs
    /\ now = 0
    /\ today = 1
    /\ push_records = {}
    /\ push_writes = <<>>
    /\ run = [r \in Runs |-> IdleRun]
    /\ PipelineIdle

\* one call of send_to_notifications
DispatchNext ==
    \/ Tick
    \/ StartRun(1)
    \/ \E r \in Runs : Step(r)

DailyInit ==
    /\ HelpersIdle
    /\ CONFIG \in DailyConfigs
    /\ now = 0
    /\ today = 1
    /\ push_records = {}
    /\ push_writes = <<>>
    /\ run = [r \in Runs |-> IdleRun]
    /\ PipelineIdle

\* calls of send_to_notifications one after the other
DailyNext ==
    \/ Tick
    \/ \E r \in Runs : NonOverlapping(r) /\ StartRun(r)
    \/ \E r \in Runs : Step(r)

\* the deployment whose overlapping runs are modelled: windowing and
\* once-per-day enabled
OverlapInit ==
    /\ DailyInit
    /\ CONFIG.PUSH_WINDOW.ENABLED
    /\ CONFIG.PUSH_WINDOW.ONCE_PER_DAY

\* between its gate and its record step a run touches nothing another run
\* reads, so these steps commute with the steps of the other runs: of the
\* runs that are there, the one with the lowest number moves
Turn(r) ==
    \/ run[r].pc = "record"
    \/ \A q \in 1..(r - 1) : run[q].pc \in {"idle", "record", "done"}

\* no run is between its start and its return
NoneRunning == \A q \in Runs : run[q].pc \in {"idle", "done"}

\* calls of send_to_notifications from triggers that do not wait for each
\* other (two processes over the one record store): a run may start while
\* another is between its gate and its record step
OverlapNext ==
    \/ NoneRunning /\ Tick  \* overlapping runs are short against the clock's unit
    \/ \E r \in Runs : StartRun(r)
    \/ \E r \in Runs : Turn(r) /\ Step(r)

----------------------------------------------------------------------------
(* The helper functions called on their own (config/loader.py,          *)
(* reporting/batch_utils.py)                                              *)

\* longest configuration value of a helper call
MaxLen == 4
\* longest account list of a helper call
MaxAccounts == 2

\* the characters of a configuration value: letters, the separator, a blank
Chars == {"a", "b", ";", " "}

\* the sequences over S of length at most n
SeqsUpTo(S, n) == UNION {[1..m -> S] : m \in 0..n}

\* config_value of parse_multi_account_config
ConfigValues == SeqsUpTo(Chars, MaxLen)

\* the account lists given to validate_paired_configs: entries are a value or blank
AccountLists == SeqsUpTo({<<"a">>, <<>>}, MaxAccounts)

\* accounts of limit_accounts: lists of up to MaxAccounts + 2 distinct entries or blanks
LongAccountLists == SeqsUpTo({<<"a">>, <<"b">>, <<>>}, MaxAccounts + 2)

\* max_count of limit_accounts: int(os.environ["MAX_ACCOUNTS_PER_CHANNEL"] or "0")
MaxCounts == (0 - 1)..(MaxAccounts + 3)

\* longest text of a _truncate_to_bytes call, in characters
MaxChars == 4

\* text of _truncate_to_bytes: a character is its number of UTF-8 bytes
Texts == SeqsUpTo(1..4, MaxChars)

\* max_bytes of _truncate_to_bytes: max_bytes - header_size of add_batch_headers
ByteLimits == (0 - 2)..(4 * MaxChars + 1)

RECURSIVE encode(_)
\* text.encode("utf-8"): a byte is the lead byte of a character of w bytes
\* (written w) or a continuation byte (written 0)
encode(text) ==
    IF text = <<>> THEN <<>>
    ELSE <<text[1]>> \o [i \in 1..(text[1] - 1) |-> 0] \o encode(Tail(text))

RECURSIVE decode(_)
\* bytes.decode("utf-8"): ok is false for UnicodeDecodeError (a
\* continuation byte where a character starts, or a character cut short)
decode(bytes) ==
    IF bytes = <<>> THEN [ok |-> TRUE, text |-> <<>>]
    ELSE LET w == bytes[1]
         IN  IF w = 0 \/ Len(bytes) < w \/ \E i \in 2..w : bytes[i] # 0
             THEN [ok |-> FALSE, text |-> <<>>]
             ELSE LET rest == decode(SubSeq(bytes, w + 1, Len(bytes)))
                  IN  [ok |-> rest.ok, text |-> <<w>> \o rest.text]

RECURSIVE first_decodableFrom1(_, _)
\* variant: the loop never tries the slice as it is
first_decodableFrom1(truncated, i) ==
    IF i + 1 >= (IF Len(truncated) < 4 THEN Len(truncated) ELSE 4) THEN <<>>
    ELSE LET decoded == decode(SubSeq(truncated, 1, Len(truncated) - (i + 1)))
         IN  IF decoded.ok THEN decoded.text ELSE first_decodableFrom1(truncated, i + 1)

RECURSIVE first_decodable(_, _)
\* for i in range(min(4, len(truncated))): return the first
\* truncated[: len(truncated) - i] that decodes; "" when none does
first_decodable(truncated, i) ==
    IF i >= (IF Len(truncated) < 4 THEN Len(truncated) ELSE 4) THEN <<>>
    ELSE LET decoded == decode(SubSeq(truncated, 1, Len(truncated) - i))
         IN  IF decoded.ok THEN decoded.text ELSE first_decodable(truncated, i + 1)

\* _truncate_to_bytes on the bytes themselves
truncate_to_bytes(text, max_bytes) ==
    LET text_bytes == encode(text)
    IN  IF Len(text_bytes) <= max_bytes THEN text
        ELSE first_decodable(Slice(text_bytes, max_bytes), 0)

\* the names of the paired lists
ConfigNames == {"bot_token", "chat_id", "extra"}

\* configs of validate_paired_configs: the two Telegram lists, with or
\* without a third list
PairedConfigs ==
    UNION {[names -> AccountLists] : names \in {{"bot_token", "chat_id"}, ConfigNames}}

\* the helper calls
HelperCalls ==
    {[NoCall EXCEPT !.fn = "parse_multi_account_config", !.config_value = v] :
         v \in ConfigValues}
    \cup
    {[NoCall EXCEPT !.fn = "validate_paired_configs", !.configs = c, !.required_keys = k] :
         c \in PairedConfigs, k \in SUBSET ConfigNames}
    \cup
    {[NoCall EXCEPT !.fn = "limit_accounts", !.accounts = a, !.max_count = m] :
         a \in LongAccountLists, m \in MaxCounts}
    \cup
    {[NoCall EXCEPT !.fn = "_truncate_to_bytes", !.text = t, !.max_bytes = m] :
         t \in Texts, m \in ByteLimits}

HelperInit ==
    /\ call \in HelperCalls
    /\ returned = <<>>
    /\ DispatchIdle
    /\ PipelineIdle

\* parse_multi_account_config(config_value) returns
CallParse ==
    /\ call.fn = "parse_multi_account_config"
    /\ returned = <<>>
    /\ returned' = <<parse_multi_account_config(call.config_value, ";")>>
    /\ UNCHANGED <<call, pvars, dvars>>

\* validate_paired_configs(configs, channel_name, required_keys) returns
CallValidate ==
    /\ call.fn = "validate_paired_configs"
    /\ returned = <<>>
    /\ returned' = <<validate_paired_configs(call.configs, call.required_keys)>>
    /\ UNCHANGED <<call, pvars, dvars>>

\* limit_accounts(accounts, max_count, channel_name) returns
CallLimit ==
    /\ call.fn = "limit_accounts"
    /\ returned = <<>>
    /\ returned' = <<limit_accounts(call.accounts, call.max_count)>>
    /\ UNCHANGED <<call, pvars, dvars>>

\* _truncate_to_bytes(text, max_bytes) returns
CallTruncate ==
    /\ call.fn = "_truncate_to_bytes"
    /\ returned = <<>>
    /\ returned' = <<truncate_to_bytes(call.text, call.max_bytes)>>
    /\ UNCHANGED <<call, pvars, dvars>>

HelperNext == CallParse \/ CallValidate \/ CallLimit \/ CallTruncate

\* a call of limit_accounts on its own, or one call of send_to_notifications
AccountsInit ==
    \/ HelperInit /\ call.fn = "limit_accounts"
    \/ DispatchInit

AccountsNext == CallLimit \/ DispatchNext

vars == <<pvars, dvars, cvars>>

\* the pipeline of a send function, for every report, channel and budget
Spec == Init /\ [][Next]_vars

\* the pipeline of a send function on reports of many batches
SpecManyBatches == ManyInit /\ [][Next]_vars

\* one dispatch under every modelled configuration
SpecDispatch == DispatchInit /\ [][DispatchNext]_vars

\* successive dispatches over the days
SpecDaily == DailyInit /\ [][DailyNext]_vars

\* runs that may overlap in time
SpecOverlap == OverlapInit /\ [][OverlapNext]_vars

\* one call of a configuration helper, for every modelled argument
SpecHelpers == HelperInit /\ [][HelperNext]_vars

\* the account cap: limit_accounts on its own and inside a dispatch
SpecAccounts == AccountsInit /\ [][AccountsNext]_vars

----------------------------------------------------------------------------
(* Properties of the packing pipeline *)

\* text contains (all or the beginning of) the piece k rendered for (g, j)
HasPiece(text, k, g, j) ==
    \E i \in 1..Len(text) : text[i].k = k /\ text[i].g = g /\ text[i].j = j

\* b is the first batch of bs that contains the piece
FirstWith(bs, b, k, g, j) ==
    /\ HasPiece(bs[b], k, g, j)
    /\ \A b2 \in 1..(b - 1) : ~HasPiece(bs[b2], k, g, j)

\* p is a prefix of the text t, cut on a character boundary
IsPrefix(p, t) ==
    /\ Len(p) <= Len(t)
    /\ \A i \in 1..Len(p) :
        \/ p[i] = t[i]
        \/ /\ i = Len(p)
           /\ p[i].k = t[i].k /\ p[i].g = t[i].g /\ p[i].j = t[i].j
           /\ p[i].ws = FitChars(t[i].ws, p[i].b)

\* max_bytes handed to split_content_into_batches by the send function
PackerMaxBytes == budget - get_max_batch_header_size(channel.header_type)

\* the whole rendered content of the report, as one text: header, every
\* heading, item and separator, footer
WholeContent ==
    split_content_into_batches(report_data, channel.split_type, update_info,
                               1000000, mode, reverse_order)[1]

EmptyReport ==
    report_data.stats = <<>> /\ report_data.new_titles = <<>> /\ report_data.failed_ids = <<>>

\* C1: every payload handed to the transport (split_content_into_batches
\* followed by add_batch_headers) has a UTF-8 byte length of at most the
\* channel's byte budget, for one batch or several.
C1_PayloadWithinBudget ==
    pc = "annotated" => \A i \in 1..Len(payloads) : Bytes(payloads[i]) <= budget

\* C2: for every keyword group and every new-title source with at least one
\* title, the batch in which the group's heading first appears also
\* contains the group's first item.
C2_HeadingWithFirstItem ==
    pc # "start" =>
        /\ \A g \in 1..Len(report_data.stats) : \A b \in 1..Len(batches) :
            (report_data.stats[g].titles # <<>> /\ FirstWith(batches, b, "word_header", g, 0))
                => HasPiece(batches[b], "news", g, 1)
        /\ \A s \in 1..Len(report_data.new_titles) : \A b \in 1..Len(batches) :
            (report_data.new_titles[s].titles # <<>> /\ FirstWith(batches, b, "source_header", s, 0))
                => HasPiece(batches[b], "new_news", s, 1)

\* C2 witness: a group heading that did not fit and opens a later batch
\* together with its first item
C2_Witness ==
    /\ pc = "split"
    /\ \E g \in 1..Len(report_data.stats) : \E b \in 2..Len(batches) :
        /\ report_data.stats[g].titles # <<>>
        /\ FirstWith(batches, b, "word_header", g, 0)
        /\ HasPiece(batches[b], "news", g, 1)
        /\ HasPiece(batches[b - 1], "word_header", g - 1, 0)

\* C3: split_content_into_batches never returns an empty list; an empty
\* report yields exactly one batch, header + the mode's "no matching
\* results" sentence + footer, whatever max_bytes is.
C3_NeverEmpty ==
    pc # "start" =>
        /\ Len(batches) >= 1
        /\ EmptyReport =>
            batches = << base_header(channel.split_type, 0)
                         \o P("empty", 0, 0,
                              E(1) ++ A(1)
                              ++ (IF mode = "daily" THEN C(9) ELSE C(16))
                              ++ A(2))
                         \o base_footer(channel.split_type, update_info) >>

\* C3 witness: an empty report whose single batch is larger than max_bytes
C3_Witness ==
    /\ pc = "split"
    /\ EmptyReport
    /\ Len(batches) = 1
    /\ Bytes(batches[1]) > PackerMaxBytes

\* C4 as claimed: a report whose whole rendered content fits within the
\* channel's byte budget yields exactly one batch, returned without marker.
C4_FitsBudgetOneBatch ==
    (pc = "annotated" /\ Bytes(WholeContent) <= budget) =>
        /\ Len(payloads) = 1
        /\ payloads[1] = WholeContent

\* C4 amended: a report whose whole rendered content is strictly smaller
\* than the byte budget minus the reserved marker size yields exactly one
\* batch, and add_batch_headers returns it unmodified, without marker.
C4_FitsReservedOneBatch ==
    (pc = "annotated" /\ Bytes(WholeContent) < PackerMaxBytes) =>
        /\ batches = <<WholeContent>>
        /\ payloads = batches
        /\ ~HasPiece(payloads[1], "batch_header", 1, 1)

\* C4 witness: a report with a keyword group of two titles that fits
C4_Witness ==
    /\ pc = "annotated"
    /\ Bytes(WholeContent) < PackerMaxBytes
    /\ Len(report_data.stats) = 1
    /\ Len(report_data.stats[1].titles) = 2
    /\ report_data.stats[1].count >= 10
    /\ payloads = <<WholeContent>>

\* C5: when the packer yields N > 1 batches, add_batch_headers returns N
\* payloads in the same order, payload i being the marker for (i, N)
\* followed by packer batch i or a prefix of it.
C5_MarkedInOrder ==
    (pc = "annotated" /\ Len(batches) > 1) =>
        /\ Len(payloads) = Len(batches)
        /\ \A i \in 1..Len(payloads) :
            /\ payloads[i] # <<>>
            /\ <<payloads[i][1]>> = _get_batch_header(channel.header_type, i, Len(batches))
            /\ IsPrefix(Tail(payloads[i]), batches[i])

\* C5 witness: several batches, one of them truncated to a proper prefix
C5_Witness ==
    /\ pc = "annotated"
    /\ Len(batches) > 2
    /\ \E i \in 1..Len(payloads) : Tail(payloads[i]) # batches[i]
    /\ \E i \in 1..Len(payloads) : Tail(payloads[i]) = batches[i]

\* the report of C6: one keyword group of two titles and nothing else
OneGroupTwoTitles ==
    /\ Len(report_data.stats) = 1
    /\ Len(report_data.stats[1].titles) = 2
    /\ report_data.new_titles = <<>>
    /\ report_data.failed_ids = <<>>

\* the budget of C6: header + heading + first title fit (with the footer),
\* header + heading + both titles do not
BudgetForFirstTitleOnly ==
    LET ft == channel.split_type
        stat == report_data.stats[1]
        head == base_header(ft, total_titles_from(report_data.stats, 1))
                \o stats_header(ft, report_data) \o word_header(ft, 1, 1, stat)
                \o stats_news_line(ft, 1, 1, stat)
        foot == Bytes(base_footer(ft, update_info))
    IN  /\ Bytes(head) + foot < PackerMaxBytes
        /\ Bytes(head \o stats_news_line(ft, 1, 2, stat)) + foot >= PackerMaxBytes

----------------------------------------------------------------------------
(* Properties of the dispatcher *)

\* the PushRecord creations made by run r
WritesOf(r) == {i \in DOMAIN push_writes : push_writes[i].run = r}

\* C7: with the push window enabled, a run started at a time outside
\* [start, end) returns the empty result map, calls no transport and writes
\* no PushRecord; a run started at the time start is not held back by the
\* window: it dispatches unless the day's push is already recorded
C7_OutsideWindowSuppressed ==
    \A r \in Runs :
        LET rr == run[r]
            w == CONFIG.PUSH_WINDOW
        IN  (rr.pc # "idle" /\ w.ENABLED) =>
                /\ (rr.started_at < w.START \/ rr.started_at >= w.END) =>
                        /\ rr.pc = "done"
                        /\ rr.results = <<>>
                        /\ rr.calls = 0
                        /\ WritesOf(r) = {}
                /\ (rr.started_at = w.START) =>
                        /\ rr.gate # "window"
                        /\ (rr.gate # "passed") =>
                              /\ w.ONCE_PER_DAY
                              /\ \E i \in DOMAIN push_writes :
                                    push_writes[i].date = rr.started_on /\ push_writes[i].run < r

C7_Witness ==
    /\ CONFIG.PUSH_WINDOW.ENABLED
    /\ \E r1, r2 \in Runs :
        /\ run[r1].pc = "done"
        /\ run[r1].started_at < CONFIG.PUSH_WINDOW.START
        /\ run[r2].started_at = CONFIG.PUSH_WINDOW.START
        /\ run[r2].calls > 0
        /\ "ntfy" \in DOMAIN run[r2].results

\* C8: with the window and once-per-day enabled, over runs that do not
\* overlap, each date has at most one PushRecord creation, every run that
\* returns a result map with a successful channel has created it, and every
\* later run started on that date returns the empty result map without a
\* transport call
C8_OncePerDay ==
    LET w == CONFIG.PUSH_WINDOW
    IN  (w.ENABLED /\ w.ONCE_PER_DAY) =>
            /\ \A i, j \in DOMAIN push_writes :
                    push_writes[i].date = push_writes[j].date => i = j
            /\ \A r \in Runs :
                    (run[r].pc = "done" /\ any_values(run[r].results)) => WritesOf(r) # {}
            /\ \A i \in DOMAIN push_writes : \A r \in Runs :
                    (r > push_writes[i].run /\ run[r].pc # "idle"
                       /\ run[r].started_on = push_writes[i].date) =>
                        /\ run[r].pc = "done"
                        /\ run[r].results = <<>>
                        /\ run[r].calls = 0

C8_Witness ==
    /\ CONFIG.PUSH_WINDOW.ENABLED
    /\ CONFIG.PUSH_WINDOW.ONCE_PER_DAY
    /\ Len(push_writes) = 1
    /\ push_writes[1].run = 1
    /\ run[2].pc = "done"
    /\ run[2].gate = "once"
    /\ run[2].started_on = push_writes[1].date
    /\ run[2].report_type # run[1].report_type

C10_ChannelIsOrOfAccounts ==
    [][\A r \in Runs :
          \A name \in (DOMAIN run'[r].results) \ (DOMAIN run[r].results) :
              name # "email" =>
                  (run'[r].results[name] <=>
                      \E i \in 1..Len(run[r].results_list) : run[r].results_list[i])]_vars

C10_Witness ==
    \E r \in Runs :
        /\ "feishu" \in DOMAIN run[r].results
        /\ run[r].results["feishu"]
        /\ run[r].ch = 2
        /\ run[r].results_list = <<FALSE, TRUE>>

\* the accounts of a channel block that the account loop sends to
ValidAccounts(name) ==
    LET accounts == Resolve(CONFIG, name).accounts
    IN  {i \in 1..Len(accounts) : Sendable(name, accounts[i])}

\* C11: a channel with zero valid accounts (every entry blank after parsing
\* and cap truncation, or no position holding all paired credentials) has no
\* key in the result map
C11_NoValidAccountNoKey ==
    \A r \in Runs :
        \A name \in (DOMAIN run[r].results) \ {"email"} :
            ValidAccounts(name) # {}

\* the marker numbers of the batches a send handed to the transport
Handed(s) == {s.log[i].batch : i \in 1..Len(s.log)}

\* the batch b of a send was accepted, at the first or the second attempt
Accepted(s, b) ==
    \E i \in 1..Len(s.log) : s.log[i].batch = b /\ s.log[i].outcome = "accepted"

Sends(r) ==
    (IF run[r].pc \in {"send", "sleep", "backoff", "retry"}
     THEN {[channel |-> ChannelOrder[run[r].ch], total |-> run[r].total, log |-> run[r].log]}
     ELSE {})
    \cup
    (IF run[r].last_send # <<>>
     THEN {[channel |-> run[r].last_send.channel, total |-> run[r].last_send.total,
            log |-> run[r].last_send.log]}
     ELSE {})

\* C13: within one account the batches go out in ascending marker order
\* 1, 2, ... on Feishu, DingTalk, WeWork, Telegram and Slack, and in
\* descending order N, N-1, ... on ntfy and Bark (a batch ntfy sends again
\* keeps its place)
C13_DeliveryOrder ==
    \A r \in Runs : \A s \in Sends(r) :
        \A i \in 1..Len(s.log) :
            IF Kind(s.channel) = "failfast"
            THEN s.log[i].batch = i
            ELSE /\ i = 1 => s.log[i].batch = s.total
                 /\ i > 1 => \/ s.log[i].batch = s.log[i - 1].batch - 1
                             \/ /\ s.channel = "ntfy"
                                /\ s.log[i].batch = s.log[i - 1].batch

C13_Witness ==
    \E r \in Runs :
        LET s == run[r].last_send
        IN  /\ s # <<>>
            /\ s.channel = "ntfy"
            /\ s.total = 2
            /\ Len(s.log) = 2
            /\ s.log[1].batch = 2
            /\ s.log[2].batch = 1
            /\ "feishu" \in DOMAIN run[r].results
            /\ run[r].results["feishu"]

\* C14: the sends to one account are strictly sequential: all transmissions
\* of a batch, its retry included, come before any transmission of the next
\* batch, and while a retry is pending the batch last transmitted is the one
\* that was rate-limited
C14_SequentialSends ==
    \A r \in Runs :
        /\ \A s \in Sends(r) :
              \A i, j \in 1..Len(s.log) :
                  (i < j /\ s.log[i].batch = s.log[j].batch) =>
                      \A m \in i..j : s.log[m].batch = s.log[i].batch
        /\ run[r].pc \in {"backoff", "retry"} =>
              /\ run[r].log # <<>>
              /\ run[r].log[Len(run[r].log)].outcome = "rate_limited"
              /\ run[r].log[Len(run[r].log)].batch = run[r].total - run[r].k + 1

C14_Witness ==
    \E r \in Runs :
        LET s == run[r].last_send
        IN  /\ s # <<>>
            /\ s.channel = "ntfy"
            /\ s.total = 2
            /\ Len(s.log) = 3
            /\ s.log[1].batch = 2 /\ s.log[1].outcome = "rate_limited"
            /\ s.log[2].batch = 2 /\ s.log[2].outcome = "accepted"
            /\ s.log[3].batch = 1

\* the transmissions of the batch b in a log
Transmissions(log, b) == {i \in 1..Len(log) : log[i].batch = b}

\* C15: only ntfy retries on a rate-limit answer: it sends the same batch
\* once more, so no batch goes out more than twice, and a second
\* transmission only ever follows a rate-limit answer to the first; on every
\* other channel each batch goes out at most once and a rate-limit answer
\* is an ordinary failure (it ends a fail-fast send with false and is not
\* counted by Bark)
C15_RetryOnlyNtfy ==
    \A r \in Runs :
        /\ \A s \in Sends(r) : \A b \in 1..s.total :
              /\ Cardinality(Transmissions(s.log, b)) <= (IF s.channel = "ntfy" THEN 2 ELSE 1)
              /\ \A i \in Transmissions(s.log, b) :
                    (i > 1 /\ s.log[i - 1].batch = b) =>
                        s.log[i - 1].outcome = "rate_limited"
        /\ run[r].pc \in {"backoff", "retry"} => ChannelOrder[run[r].ch] = "ntfy"
        /\ LET s == run[r].last_send
           IN  s # <<>> =>
                 \A i \in 1..Len(s.log) :
                     s.log[i].outcome = "rate_limited" =>
                         IF s.channel = "ntfy"
                         THEN Cardinality(Transmissions(s.log, s.log[i].batch)) = 2
                         ELSE /\ s.accepted = Cardinality({j \in 1..Len(s.log) :
                                                            s.log[j].outcome = "accepted"})
                              /\ Kind(s.channel) = "failfast" => (i = Len(s.log) /\ ~s.result)

C15_Witness ==
    \E r \in Runs :
        LET s == run[r].last_send
        IN  /\ s # <<>>
            /\ s.channel = "ntfy"
            /\ s.total = 1
            /\ Len(s.log) = 2
            /\ s.log[1].outcome = "rate_limited"
            /\ s.log[2].outcome = "rate_limited"
            /\ ~s.result
            /\ "feishu" \in DOMAIN run[r].results
            /\ ~run[r].results["feishu"]

\* the channels whose paired lists, as parsed, differ in length: the
\* Telegram token list against the chat-id list, a non-empty ntfy token list
\* against the topic list
Mismatched ==
    LET telegram_tokens == parse_multi_account_config(CONFIG.TELEGRAM_BOT_TOKEN, ";")
        telegram_chat_ids == parse_multi_account_config(CONFIG.TELEGRAM_CHAT_ID, ";")
        ntfy_topics == parse_multi_account_config(CONFIG.NTFY_TOPIC, ";")
        ntfy_tokens == parse_multi_account_config(CONFIG.NTFY_TOKEN, ";")
    IN  (IF Len(telegram_tokens) # Len(telegram_chat_ids) THEN {"telegram"} ELSE {})
        \cup
        (IF ntfy_tokens # <<>> /\ Len(ntfy_tokens) # Len(ntfy_topics) THEN {"ntfy"} ELSE {})

\* the channels of ChannelOrder as a set
ChannelNames == {ChannelOrder[i] : i \in 1..Len(ChannelOrder)}

\* the send functions a run has called, as (channel, account position) pairs
SentTo(r, name) == {a \in run[r].attempted : a[1] = name}

\* C16: a channel whose paired lists differ in length gets no send and no
\* entry in the result map; the call still dispatches every other configured
\* channel (a send to each of its valid accounts, a key in the result map)
\* and returns the result map
C16_MismatchSkipsChannel ==
    \A r \in Runs :
        /\ \A name \in Mismatched :
              /\ name \notin DOMAIN run[r].results
              /\ SentTo(r, name) = {}
              /\ run[r].pc \notin {"idle", "channel", "done"} => ChannelOrder[run[r].ch] # name
        /\ (Mismatched # {} /\ run[r].pc = "done" /\ run[r].gate = "passed") =>
              \A name \in ChannelNames \ Mismatched :
                  IF name = "email"
                  THEN Resolve(CONFIG, name).entered => name \in DOMAIN run[r].results
                  ELSE /\ SentTo(r, name) = {<<name, i>> : i \in ValidAccounts(name)}
                       /\ ValidAccounts(name) # {} => name \in DOMAIN run[r].results

C16_Witness ==
    \E r \in Runs :
        /\ "ntfy" \in Mismatched
        /\ run[r].pc = "done"
        /\ run[r].gate = "passed"
        /\ "ntfy" \notin DOMAIN run[r].results
        /\ SentTo(r, "slack") # {}
        /\ SentTo(r, "feishu_outside") # {}
        /\ "email" \in DOMAIN run[r].results

\* a Telegram mismatch is skipped the same way, with channels before and
\* after it dispatched
C16_TelegramWitness ==
    \E r \in Runs :
        /\ "telegram" \in Mismatched
        /\ run[r].pc = "done"
        /\ "telegram" \notin DOMAIN run[r].results
        /\ SentTo(r, "dingtalk") # {}
        /\ "email" \in DOMAIN run[r].results

\* the channel blocks before position ch have run: a send function was
\* called for each of their valid accounts and each entered block left a key
Dispatched(r, ch) ==
    \A c \in 1..(ch - 1) :
        LET name == ChannelOrder[c]
        IN  /\ name # "email" => SentTo(r, name) = {<<name, i>> : i \in ValidAccounts(name)}
            /\ Resolve(CONFIG, name).entered <=> name \in DOMAIN run[r].results

\* C17: a transport failure stays inside the send function it happens in:
\* whatever the earlier sends answered, the account loop reaches every
\* valid account of its channel, the call reaches every configured channel,
\* and it ends by returning the result map
C17_FailureContained ==
    \A r \in Runs :
        LET rr == run[r]
            name == ChannelOrder[rr.ch]
        IN  /\ rr.pc \in {"channel", "smtp"} => Dispatched(r, rr.ch)
            /\ rr.pc \in {"account", "send", "sleep", "backoff", "retry"} =>
                  /\ Dispatched(r, rr.ch)
                  /\ SentTo(r, name) =
                        {<<name, i>> : i \in {v \in ValidAccounts(name) :
                                                 \/ v < rr.idx
                                                 \/ v = rr.idx /\ rr.pc # "account"}}
            /\ rr.pc = "record" => Dispatched(r, Len(ChannelOrder) + 1)
            /\ (rr.pc = "done" /\ rr.gate = "passed") => Dispatched(r, Len(ChannelOrder) + 1)

C17_Witness ==
    \E r \in Runs :
        LET rr == run[r]
            s == rr.last_send
        IN  /\ rr.pc = "send"
            /\ ChannelOrder[rr.ch] = "ntfy"
            /\ s # <<>>
            /\ s.channel = "feishu"
            /\ ~s.result
            /\ s.log[Len(s.log)].outcome = "exception"
            /\ "feishu" \in DOMAIN rr.results
            /\ ~rr.results["feishu"]
            /\ Cardinality(SentTo(r, "feishu")) = 2

\* CONFIG["TELEGRAM_BOT_TOKEN"] and CONFIG["TELEGRAM_CHAT_ID"] as parsed
TelegramTokens == parse_multi_account_config(CONFIG.TELEGRAM_BOT_TOKEN, ";")
TelegramChatIds == parse_multi_account_config(CONFIG.TELEGRAM_CHAT_ID, ";")

\* the positions whose token and chat id are both non-empty
TelegramPaired ==
    {i \in 1..Len(TelegramTokens) :
        /\ i <= Len(TelegramChatIds)
        /\ TelegramTokens[i] # <<>>
        /\ TelegramChatIds[i] # <<>>}

\* C18: send_to_telegram is called only when the token list and the chat-id
\* list have the same length, and each call gets the token and the chat id
\* of one and the same position, both non-empty; a position with a blank
\* token or chat id gets no call and its partner goes to no other position
C18_TelegramPairing ==
    \A r \in Runs :
        LET rr == run[r]
            s == rr.last_send
        IN  /\ SentTo(r, "telegram") # {} => Len(TelegramTokens) = Len(TelegramChatIds)
            /\ \A a \in SentTo(r, "telegram") : a[2] \in TelegramPaired
            /\ (rr.pc \in {"send", "sleep"} /\ ChannelOrder[rr.ch] = "telegram") =>
                  /\ rr.idx \in TelegramPaired
                  /\ rr.accounts[rr.idx].id = TelegramTokens[rr.idx]
                  /\ rr.accounts[rr.idx].second = TelegramChatIds[rr.idx]
            /\ (s # <<>> /\ s.channel = "telegram") =>
                  \E a \in SentTo(r, "telegram") :
                      /\ s.account.id = TelegramTokens[a[2]]
                      /\ s.account.second = TelegramChatIds[a[2]]

C18_Witness ==
    \E r \in Runs :
        LET rr == run[r]
            s == rr.last_send
        IN  /\ rr.pc = "account"
            /\ ChannelOrder[rr.ch] = "telegram"
            /\ Len(TelegramTokens) = 3
            /\ TelegramTokens[2] = <<>>
            /\ TelegramChatIds[2] # <<>>
            /\ SentTo(r, "telegram") = {<<"telegram", 1>>, <<"telegram", 3>>}
            /\ s # <<>>
            /\ s.account = Account(TelegramTokens[3], TelegramChatIds[3])

\* the positions of the separator in a configuration value
SepAt(s) == {i \in 1..Len(s) : s[i] = ";"}

\* the position of the k-th separator
NthSep(s, k) == CHOOSE i \in SepAt(s) : Cardinality({j \in SepAt(s) : j < i}) = k - 1

\* the k-th field of a configuration value: the characters between the
\* separators k-1 and k
Field(s, k) ==
    SubSeq(s, IF k = 1 THEN 1 ELSE NthSep(s, k - 1) + 1,
              IF k = Cardinality(SepAt(s)) + 1 THEN Len(s) ELSE NthSep(s, k) - 1)

\* t is the field f without its leading and trailing blanks
Trimmed(t, f) ==
    \E l, r \in 0..Len(f) :
        /\ l + r <= Len(f)
        /\ t = SubSeq(f, l + 1, Len(f) - r)
        /\ \A i \in 1..l : f[i] = " "
        /\ \A i \in (Len(f) - r + 1)..Len(f) : f[i] = " "
        /\ t # <<>> => (t[1] # " " /\ t[Len(t)] # " ")

\* C19: parse_multi_account_config returns the fields between the
\* separators, each trimmed, with the empty ones kept in their position; it
\* returns the empty list exactly when the value is empty or every field is
\* blank
C19_ParseKeepsPositions ==
    (call.fn = "parse_multi_account_config" /\ returned # <<>>) =>
        LET s == call.config_value
            accounts == returned[1]
            n == Cardinality(SepAt(s)) + 1
        IN  IF s = <<>> \/ \A i \in 1..Len(s) : s[i] \in {";", " "}
            THEN accounts = <<>>
            ELSE /\ Len(accounts) = n
                 /\ \A k \in 1..n : Trimmed(accounts[k], Field(s, k))

C19_Witness ==
    /\ call.fn = "parse_multi_account_config"
    /\ call.config_value = <<"a", ";", ";", "b">>
    /\ returned = << << <<"a">>, <<>>, <<"b">> >> >>

\* the names of a validate_paired_configs call whose list is not empty
NonEmptyNames == {k \in DOMAIN call.configs : call.configs[k] # <<>>}

\* C20: validate_paired_configs returns (true, 0) when every list is empty
\* or a required name has an empty list; otherwise (false, 0) when the
\* non-empty lists differ in length and (true, n) when they share the
\* length n
C20_ValidatePaired ==
    (call.fn = "validate_paired_configs" /\ returned # <<>>) =>
        IF \/ NonEmptyNames = {}
           \/ \E key \in call.required_keys : key \notin NonEmptyNames
        THEN returned[1] = <<TRUE, 0>>
        ELSE IF \E k1, k2 \in NonEmptyNames : Len(call.configs[k1]) # Len(call.configs[k2])
        THEN returned[1] = <<FALSE, 0>>
        ELSE \A k \in NonEmptyNames : returned[1] = <<TRUE, Len(call.configs[k])>>

C20_Witness ==
    /\ call.fn = "validate_paired_configs"
    /\ DOMAIN call.configs = {"bot_token", "chat_id"}
    /\ call.configs["bot_token"] = << <<"a">>, <<"a">> >>
    /\ call.configs["chat_id"] = << <<"a">> >>
    /\ call.required_keys = {"bot_token", "chat_id"}
    /\ returned = << <<FALSE, 0>> >>

\* C21: for max_count >= 0, limit_accounts returns the first max_count
\* entries in configuration order when the list is longer and the list
\* itself otherwise; so within one call of send_to_notifications no channel
\* has its send function called for more than MAX_ACCOUNTS_PER_CHANNEL
\* accounts, and those it is called for are among the first
\* MAX_ACCOUNTS_PER_CHANNEL entries
C21_LimitAccounts ==
    /\ (call.fn = "limit_accounts" /\ returned # <<>> /\ call.max_count >= 0) =>
          returned[1] = IF Len(call.accounts) > call.max_count
                        THEN [i \in 1..call.max_count |-> call.accounts[i]]
                        ELSE call.accounts
    /\ CONFIG.MAX_ACCOUNTS_PER_CHANNEL >= 0 =>
          \A r \in Runs :
              /\ \A name \in ChannelNames :
                    /\ Cardinality(SentTo(r, name)) <= CONFIG.MAX_ACCOUNTS_PER_CHANNEL
                    /\ \A a \in SentTo(r, name) : a[2] <= CONFIG.MAX_ACCOUNTS_PER_CHANNEL
              /\ run[r].pc \in {"account", "send", "sleep", "backoff", "retry"} =>
                    Len(run[r].accounts) <= CONFIG.MAX_ACCOUNTS_PER_CHANNEL

C21_Witness ==
    /\ call.fn = "limit_accounts"
    /\ call.accounts = << <<"a">>, <<"b">>, <<"a">>, <<"b">> >>
    /\ call.max_count = 3
    /\ returned = << << <<"a">>, <<"b">>, <<"a">> >> >>

\* a dispatch that reached the cap: three DingTalk entries, two sends
C21_CapReached ==
    \E r \in Runs :
        /\ run[r].pc = "done"
        /\ CONFIG.MAX_ACCOUNTS_PER_CHANNEL = 2
        /\ Len(parse_multi_account_config(CONFIG.DINGTALK_WEBHOOK_URL, ";")) = 3
        /\ SentTo(r, "dingtalk") = {<<"dingtalk", 1>>, <<"dingtalk", 2>>}

\* C22: for every non-empty report and every max_bytes, each batch
\* returned by split_content_into_batches has a UTF-8 byte length of at
\* most the max_bytes it was given (byte budget minus marker reserve)
C22_BatchWithinMaxBytes ==
    (pc # "start" /\ ~EmptyReport) =>
        \A i \in 1..Len(batches) : Bytes(batches[i]) <= PackerMaxBytes

\* the marker of payload i of the pipeline's result
Marker(i) == _get_batch_header(channel.header_type, i, Len(batches))

C23_HundredBatches ==
    /\ pc = "annotated"
    /\ Len(batches) = 100
    /\ Bytes(batches[100]) = PackerMaxBytes - 1
    /\ Bytes(Marker(100)) = get_max_batch_header_size(channel.header_type) + 2
    /\ Bytes(payloads[100]) = budget
    /\ payloads[100] # Marker(100) \o batches[100]

RECURSIVE EncodedLen(_)
\* the number of UTF-8 bytes of a text given by its characters' sizes
EncodedLen(text) == IF text = <<>> THEN 0 ELSE text[1] + EncodedLen(Tail(text))

\* the prefixes of a text that end on a character boundary and whose
\* encoding has at most m bytes
PrefixesWithin(text, m) ==
    {n \in 0..Len(text) : EncodedLen(SubSeq(text, 1, n)) <= m}

RECURSIVE Widths(_)
\* a text given by its characters' sizes, as run-length encoded widths
Widths(text) == IF text = <<>> THEN <<>> ELSE Run(text[1], 1) ++ Widths(Tail(text))

\* C24: _truncate_to_bytes(text, m) returns text unchanged when its
\* encoding has at most m bytes; otherwise the longest prefix that ends on
\* a character boundary and has at most m bytes, or the empty string when
\* there is no such non-empty prefix; for every text and every m the
\* result has at most m bytes (no bytes at all for a negative m)
C24_TruncateToBytes ==
    (call.fn = "_truncate_to_bytes" /\ returned # <<>>) =>
        LET text == call.text
            m == call.max_bytes
            result == returned[1]
            fitting == PrefixesWithin(text, m) \ {0}
        IN  /\ EncodedLen(text) <= m => result = text
            /\ EncodedLen(text) > m =>
                  IF fitting = {} THEN result = <<>>
                  ELSE \E n \in fitting :
                          /\ result = SubSeq(text, 1, n)
                          /\ \A k \in fitting : k <= n
            /\ EncodedLen(result) <= (IF m < 0 THEN 0 ELSE m)

\* the same for max_bytes >= 0, where moreover the packer's
\* _truncate_to_bytes on pieces of text returns the same characters
C24_TruncateNonNegative ==
    (call.fn = "_truncate_to_bytes" /\ returned # <<>> /\ call.max_bytes >= 0) =>
        LET text == call.text
            m == call.max_bytes
            result == returned[1]
            fitting == PrefixesWithin(text, m) \ {0}
        IN  /\ EncodedLen(text) <= m => result = text
            /\ EncodedLen(text) > m =>
                  IF fitting = {} THEN result = <<>>
                  ELSE \E n \in fitting :
                          /\ result = SubSeq(text, 1, n)
                          /\ \A k \in fitting : k <= n
            /\ EncodedLen(result) <= m
            /\ _truncate_to_bytes(P("text", 0, 0, Widths(text)), m)
                  = P("text", 0, 0, Widths(result))

\* a four-byte character cut after its second byte is dropped whole
C24_SplitCharacter ==
    /\ call.fn = "_truncate_to_bytes"
    /\ call.text = <<1, 3, 4, 1>>
    /\ call.max_bytes = 6
    /\ returned = << <<1, 3>> >>

\* a negative max_bytes cuts from the end of the text
C24_NegativeLimit ==
    /\ call.fn = "_truncate_to_bytes"
    /\ call.text = <<1, 1>>
    /\ call.max_bytes = 0 - 1
    /\ returned = << <<1>> >>

\* C25: when the report has failed sources, the batch in which the
\* failed-sources heading first appears also contains the first
\* failed-source entry
C25_FailedHeadingWithFirstEntry ==
    (pc # "start" /\ report_data.failed_ids # <<>>) =>
        \A b \in 1..Len(batches) :
            FirstWith(batches, b, "failed_header", 0, 0) => HasPiece(batches[b], "failed", 1, 0)

\* the heading closes a batch of other content and the first entry opens
\* the next one, every batch being within max_bytes
C25_HeadingLeftBehind ==
    /\ pc = "split"
    /\ \A i \in 1..Len(batches) : Bytes(batches[i]) < PackerMaxBytes
    /\ \E b \in 1..(Len(batches) - 1) :
          /\ FirstWith(batches, b, "failed_header", 0, 0)
          /\ ~HasPiece(batches[b], "failed", 1, 0)
          /\ HasPiece(batches[b + 1], "failed_header", 0, 0)
          /\ HasPiece(batches[b + 1], "failed", 1, 0)
          /\ \E g \in 1..MaxGroups : HasPiece(batches[b], "news", g, 1)

\* the bytes of the first p pieces of batch b together with the footer
UpTo(b, p) ==
    Bytes(SubSeq(batches[b], 1, p)) + Bytes(base_footer(channel.split_type, update_info))

\* the separators in batch b: the one between keyword groups and the one
\* that ends a new-title source
SeparatorsIn(b) ==
    {p \in 1..Len(batches[b]) : batches[b][p].k \in {"separator", "source_end"}}

\* C26: the separator after a keyword group or a new-title source is
\* appended only if buffer + separator + footer still fits max_bytes, so
\* it never turns a buffer that fitted into one that does not
C26_SeparatorOnlyIfFits ==
    pc # "start" =>
        \A b \in 1..Len(batches) : \A p \in SeparatorsIn(b) :
            UpTo(b, p) < PackerMaxBytes

\* the line break that ends a new-title source is appended to a buffer
\* that fitted and no longer fits with it
C26_LineBreakOverflows ==
    /\ pc = "split"
    /\ \E b \in 1..Len(batches) : \E p \in SeparatorsIn(b) :
          /\ batches[b][p].k = "source_end"
          /\ UpTo(b, p - 1) < PackerMaxBytes
          /\ UpTo(b, p) >= PackerMaxBytes

\* the separator between keyword groups alone is appended only if it fits
C26_GroupSeparatorOnlyIfFits ==
    pc # "start" =>
        \A b \in 1..Len(batches) : \A p \in SeparatorsIn(b) :
            batches[b][p].k = "separator" => UpTo(b, p) < PackerMaxBytes

\* the piece at position p of batch b is in none of the batches before b
NewIn(b, p) ==
    LET piece == batches[b][p]
    IN  \A b2 \in 1..(b - 1) : ~HasPiece(batches[b2], piece.k, piece.g, piece.j)

\* the position in batch b of the first piece placed in it: the first one
\* after the header that is not a heading repeated from an earlier batch
FirstPlaced(b) ==
    CHOOSE p \in 1..Len(batches[b]) :
        /\ batches[b][p].k # "base_header" /\ NewIn(b, p)
        /\ \A q \in 1..(p - 1) : batches[b][q].k = "base_header" \/ ~NewIn(b, q)

\* the size of that piece: a group heading counts with the group's first
\* item, with which it forms one unit
PlacedBytes(b) ==
    LET p == FirstPlaced(b)
        piece == batches[b][p]
        first_item == IF piece.k = "word_header" THEN "news" ELSE "new_news"
    IN  IF /\ piece.k \in {"word_header", "source_header"}
           /\ p < Len(batches[b])
           /\ batches[b][p + 1].k = first_item
           /\ batches[b][p + 1].g = piece.g
           /\ batches[b][p + 1].j = 1
        THEN piece.b + batches[b][p + 1].b
        ELSE piece.b

\* C27: the packer flushes only when needed: for every two consecutive
\* batches, the first piece placed in the later one (block heading,
\* heading + first-item unit, item line or failed-source line) did not fit
\* the earlier one: earlier buffer + piece + footer reached max_bytes
C27_FlushOnlyWhenNeeded ==
    pc # "start" =>
        \A b \in 1..(Len(batches) - 1) :
            Bytes(batches[b]) + PlacedBytes(b + 1) >= PackerMaxBytes

\* three batches: the second opens with a heading + first-item unit, the
\* third with a later item of the same group under its repeated heading
C27_Witness ==
    /\ pc = "split"
    /\ Len(batches) = 3
    /\ batches[2][FirstPlaced(2)].k = "word_header"
    /\ PlacedBytes(2) > batches[2][FirstPlaced(2)].b
    /\ batches[3][FirstPlaced(3)].k = "news"
    /\ batches[3][FirstPlaced(3)].j = 2
    /\ \A b \in 1..3 : Bytes(batches[b]) < PackerMaxBytes

\* run r transmits a batch and stands right before the transmission of the
\* next batch to the same account, no delay step in between
NextBatchAtOnce(r) ==
    /\ run'[r].calls = run[r].calls + 1
    /\ run'[r].pc = "send"
    /\ run'[r].ch = run[r].ch
    /\ run'[r].idx = run[r].idx
    /\ run'[r].k = run[r].k + 1

\* C28: between two consecutive batch transmissions to the same account a
\* delay step occurs, whatever the outcome of the earlier transmission: no
\* transmission leads straight to the next one
C28_DelayBetweenBatches ==
    [][\A r \in Runs : ~NextBatchAtOnce(r)]_vars

\* after an accepted batch with more to come the delay step is next
C28_DelayAfterAccepted ==
    [][\A r \in Runs :
          (/\ NextBatchAtOnce(r)
           /\ run[r].pc = "send")
          => run'[r].log[Len(run'[r].log)].outcome # "accepted"]_vars

\* run r is between its gate and its return and has transmitted
Dispatching(r) == run[r].pc \notin {"idle", "done"} /\ run[r].calls > 0

\* the creations of the PushRecord of (report type, date)
WritesFor(report_type, date) ==
    {i \in DOMAIN push_writes :
        push_writes[i].report_type = report_type /\ push_writes[i].date = date}

\* C29: when two runs for the same report type and calendar date overlap
\* with windowing and once-per-day enabled, at most one of them dispatches
\* to channels and the PushRecord for that date is written at most once
C29_AtomicExistsOrCreate ==
    (CONFIG.PUSH_WINDOW.ENABLED /\ CONFIG.PUSH_WINDOW.ONCE_PER_DAY) =>
        /\ \A r1, r2 \in Runs :
              (/\ r1 # r2
               /\ run[r1].report_type = run[r2].report_type
               /\ run[r1].started_on = run[r2].started_on)
              => ~(Dispatching(r1) /\ Dispatching(r2))
        /\ \A t \in ReportTypes, d \in 1..MaxDays : Cardinality(WritesFor(t, d)) <= 1

\* C30: the once-per-day check is keyed by report type: a run of report
\* type A is suppressed by it only when a PushRecord for (A, today) exists;
\* a record written the same day for another report type does not suppress it
C30_KeyedByReportType ==
    \A r \in Runs :
        run[r].gate = "once" =>
            [report_type |-> run[r].report_type, date |-> run[r].started_on] \in push_records

\* a run is suppressed by the once-per-day check on a day on which a record
\* of the date exists
C30_SuppressedByDate ==
    \A r \in Runs :
        run[r].gate = "once" => \E rec \in push_records : rec.date = run[r].started_on

\* the result map of run r holds a channel that returned success
SomeChannelSucceeded(r) == \E name \in DOMAIN run[r].results : run[r].results[name] = TRUE

\* C31: a PushRecord is written by a run only if windowing and once-per-day
\* are both enabled and at least one channel returned success; a run whose
\* sends all fail, or without a configured channel, or held back by the
\* gate writes none, so the once-per-day check suppresses a run only after
\* an earlier run with a successful channel on that date
C31_RecordOnlyAfterSuccess ==
    /\ \A i \in DOMAIN push_writes :
          LET rr == run[push_writes[i].run]
          IN  /\ CONFIG.PUSH_WINDOW.ENABLED
              /\ CONFIG.PUSH_WINDOW.ONCE_PER_DAY
              /\ rr.gate = "passed"
              /\ SomeChannelSucceeded(push_writes[i].run)
    /\ \A rec \in push_records : \E i \in DOMAIN push_writes :
          push_writes[i].report_type = rec.report_type /\ push_writes[i].date = rec.date
    /\ \A r \in Runs :
          run[r].gate = "once" =>
              \E q \in 1..(r - 1) :
                  /\ SomeChannelSucceeded(q)
                  /\ \E i \in WritesOf(q) : push_writes[i].date = run[r].started_on

\* the first run transmits and every send of it fails; the second run of the
\* same date passes the once-per-day check and transmits
C31_Witness ==
    /\ CONFIG.PUSH_WINDOW.ENABLED
    /\ CONFIG.PUSH_WINDOW.ONCE_PER_DAY
    /\ run[1].pc = "done"
    /\ run[1].calls > 0
    /\ DOMAIN run[1].results # {}
    /\ ~SomeChannelSucceeded(1)
    /\ push_writes = <<>>
    /\ run[2].started_on = run[1].started_on
    /\ run[2].gate = "passed"
    /\ run[2].calls > 0

\* CONFIG["NTFY_TOPIC"] and CONFIG["NTFY_TOKEN"] as parsed
NtfyTopics == parse_multi_account_config(CONFIG.NTFY_TOPIC, ";")
NtfyTokens == parse_multi_account_config(CONFIG.NTFY_TOKEN, ";")

\* the token that belongs to the topic at position i
NtfyTokenAt(i) == IF NtfyTokens = <<>> THEN <<>> ELSE NtfyTokens[i]

\* C32: the ntfy topic at position i is sent with the token at position i
\* of the token list (the empty token when that entry is blank or the list
\* is empty), never with the token of another position, also after the
\* topic list was cut to the account cap; a blank topic position gets no
\* call and shifts no later position
C32_NtfyPairing ==
    \A r \in Runs :
        LET rr == run[r]
            s == rr.last_send
        IN  /\ \A a \in SentTo(r, "ntfy") :
                  /\ a[2] <= Len(NtfyTopics)
                  /\ a[2] <= CONFIG.MAX_ACCOUNTS_PER_CHANNEL
                  /\ NtfyTopics[a[2]] # <<>>
                  /\ NtfyTokens # <<>> => Len(NtfyTokens) = Len(NtfyTopics)
            /\ (rr.pc \in {"send", "sleep", "backoff", "retry"} /\ ChannelOrder[rr.ch] = "ntfy") =>
                  /\ <<"ntfy", rr.idx>> \in rr.attempted
                  /\ rr.accounts[rr.idx].id = NtfyTopics[rr.idx]
                  /\ rr.accounts[rr.idx].second = NtfyTokenAt(rr.idx)
            /\ (s # <<>> /\ s.channel = "ntfy") =>
                  \E a \in SentTo(r, "ntfy") :
                      /\ s.account.id = NtfyTopics[a[2]]
                      /\ s.account.second = NtfyTokenAt(a[2])

\* topics a, blank, b, c with tokens blank, d, e, a under a cap of 3: a went
\* out with the empty token, the blank position got no call, b goes out
\* with e
C32_Witness ==
    \E r \in Runs :
        LET rr == run[r]
        IN  /\ Len(NtfyTopics) > CONFIG.MAX_ACCOUNTS_PER_CHANNEL
            /\ rr.pc = "send"
            /\ ChannelOrder[rr.ch] = "ntfy"
            /\ rr.idx = 3
            /\ rr.accounts[3].second = NtfyTokens[3]
            /\ NtfyTokens[3] # <<>>
            /\ NtfyTokens[2] # <<>>
            /\ NtfyTopics[2] = <<>>
            /\ SentTo(r, "ntfy") = {<<"ntfy", 1>>, <<"ntfy", 3>>}
            /\ rr.last_send.channel = "ntfy"
            /\ rr.last_send.account.second = <<>>

\* C33: split_content_into_batches leaves report_data unchanged: after
\* packing, every section, group and item, the is_new flag of the new-title
\* items included, equals its value before the call
C33_ReportUnchanged ==
    [][(pc = "start" /\ pc' = "split") => report_data' = report_data]_vars

\* a report packed with a new-title item whose is_new flag is set, the item
\* rendered in a batch
C33_Witness ==
    /\ pc = "split"
    /\ \E s \in 1..Len(report_data.new_titles) :
          \E j \in 1..Len(report_data.new_titles[s].titles) :
              /\ report_data.new_titles[s].titles[j].is_new
              /\ \E b \in 1..Len(batches) : HasPiece(batches[b], "new_news", s, j)

RECURSIVE Concat(_)
\* the batches read one after the other
Concat(bs) == IF bs = <<>> THEN <<>> ELSE bs[1] \o Concat(Tail(bs))

IsItem(piece) == piece.k \in {"news", "new_news", "failed"}

\* the item lines of a text, in order: kind, group, ordinal
ItemsOf(text) ==
    LET items == SelectSeq(text, IsItem)
    IN  [p \in 1..Len(items) |-> <<items[p].k, items[p].g, items[p].j>>]

RECURSIVE TitlesFrom(_, _, _)
\* the titles of the groups g, g + 1, ... of a section, each with its
\* 1-based ordinal within its group
TitlesFrom(k, groups, g) ==
    IF g > Len(groups) THEN <<>>
    ELSE [j \in 1..Len(groups[g].titles) |-> <<k, g, j>>] \o TitlesFrom(k, groups, g + 1)

\* the items of the report in its order: the keyword groups and the
\* new-title sources (the latter first under REVERSE_CONTENT_ORDER), then
\* the failed ids
ReportItems ==
    LET stats_items == TitlesFrom("news", report_data.stats, 1)
        new_items == TitlesFrom("new_news", report_data.new_titles, 1)
        failed_items == [i \in 1..Len(report_data.failed_ids) |-> <<"failed", i, 0>>]
    IN  (IF reverse_order THEN new_items \o stats_items ELSE stats_items \o new_items)
        \o failed_items

\* C34: across the batches returned, every title of every keyword group,
\* every title of every new-title source and every failed id appears in
\* exactly one batch, exactly once and whole, and the batches read in order
\* give the items in report order, each title with its 1-based ordinal
\* within its group
C34_EveryItemOnceInOrder ==
    pc # "start" =>
        /\ ItemsOf(Concat(batches)) = ReportItems
        /\ \A b \in 1..Len(batches) : \A p \in 1..Len(batches[b]) :
              LET piece == batches[b][p]
              IN  /\ piece.k = "news" =>
                        piece = stats_news_line(channel.split_type, piece.g, piece.j,
                                                report_data.stats[piece.g])[1]
                  /\ piece.k = "new_news" =>
                        piece = new_news_line(channel.split_type, piece.g, piece.j,
                                              report_data.new_titles[piece.g])[1]
                  /\ piece.k = "failed" =>
                        piece = failed_line(channel.split_type, piece.g,
                                            report_data.failed_ids[piece.g])[1]

\* a report with all three sections packed into three batches or more, a
\* keyword group and a new-title source each with titles in two batches
C34_Witness ==
    /\ pc = "split"
    /\ Len(batches) >= 3
    /\ report_data.failed_ids # <<>>
    /\ \E g \in 1..Len(report_data.stats) : \E b \in 1..(Len(batches) - 1) :
          HasPiece(batches[b], "news", g, 1) /\ HasPiece(batches[b + 1], "news", g, 2)
    /\ \E g \in 1..Len(report_data.new_titles) : \E b \in 1..(Len(batches) - 1) :
          HasPiece(batches[b], "new_news", g, 1) /\ HasPiece(batches[b + 1], "new_news", g, 2)

\* the piece k of group g stands before position p of the text
Before(text, p, k, g) ==
    \E q \in 1..(p - 1) : text[q].k = k /\ text[q].g = g

\* the item at position p of the text has its group heading and its block
\* heading before it
Headed(text, p) ==
    LET piece == text[p]
    IN  /\ piece.k = "news" =>
              Before(text, p, "word_header", piece.g) /\ Before(text, p, "stats_header", 0)
        /\ piece.k = "new_news" =>
              Before(text, p, "source_header", piece.g) /\ Before(text, p, "new_header", 0)
        /\ piece.k = "failed" => Before(text, p, "failed_header", 0)

\* the batch opens with the base header of the report (empty for some formats)
OpensWithBaseHeader(text) ==
    LET h == base_header(channel.split_type, total_titles_from(report_data.stats, 1))
    IN  Len(text) >= Len(h) /\ SubSeq(text, 1, Len(h)) = h

\* C35: in every batch returned, each item line is preceded, within that
\* same batch, by the heading of its own group and by its block heading,
\* after the base header
C35_ItemsUnderTheirHeadings ==
    pc # "start" =>
        \A b \in 1..Len(batches) : \A p \in 1..Len(batches[b]) :
            IsItem(batches[b][p]) =>
                /\ OpensWithBaseHeader(batches[b])
                /\ Headed(batches[b], p)

\* the titles of the keyword groups and of the new-title sources stand
\* under their headings in every batch
C35_TitlesUnderTheirHeadings ==
    pc # "start" =>
        \A b \in 1..Len(batches) : \A p \in 1..Len(batches[b]) :
            batches[b][p].k \in {"news", "new_news"} =>
                /\ OpensWithBaseHeader(batches[b])
                /\ Headed(batches[b], p)

\* the failed-source lines stand under the failed-sources heading in every
\* batch of the formats that have one
C35_FailedUnderHeading ==
    (pc # "start" /\ channel.split_type \notin {"bark", "slack"}) =>
        \A b \in 1..Len(batches) : \A p \in 1..Len(batches[b]) :
            batches[b][p].k = "failed" => Headed(batches[b], p)

\* a batch of a Slack or Bark report lists failed sources
C35_FailedWithoutHeading ==
    /\ pc = "split"
    /\ channel.split_type \in {"bark", "slack"}
    /\ \E b \in 1..Len(batches) : \E p \in 1..Len(batches[b]) :
          batches[b][p].k = "failed" /\ ~Headed(batches[b], p)

IsBlockHeading(piece) == piece.k \in {"stats_header", "new_header", "failed_header"}

\* the kind of the entries of the block a heading opens
EntryOf(k) ==
    CASE k = "stats_header" -> {"word_header", "news"}
      [] k = "new_header" -> {"source_header", "new_news"}
      [] k = "failed_header" -> {"failed"}

\* C36: a block heading (statistics banner, new-titles banner,
\* failed-sources heading) is never the last content of a batch: every
\* batch that contains one also contains, after it, an entry of that block
C36_BlockHeadingNotLast ==
    pc # "start" =>
        \A b \in 1..Len(batches) : \A p \in 1..Len(batches[b]) :
            IsBlockHeading(batches[b][p]) =>
                \E q \in (p + 1)..Len(batches[b]) : batches[b][q].k \in EntryOf(batches[b][p].k)

\* the same for the two banners only
C36_BannerNotLast ==
    pc # "start" =>
        \A b \in 1..Len(batches) : \A p \in 1..Len(batches[b]) :
            batches[b][p].k \in {"stats_header", "new_header"} =>
                \E q \in (p + 1)..Len(batches[b]) : batches[b][q].k \in EntryOf(batches[b][p].k)

RECURSIVE UnitsFrom(_, _)
\* the pieces of the groups g, g + 1, ... of a section: the heading +
\* first-item unit of each group and one piece for each later item
UnitsFrom(groups, g) ==
    IF g > Len(groups) THEN 0
    ELSE (IF Len(groups[g].titles) > 1 THEN Len(groups[g].titles) ELSE 1)
         + UnitsFrom(groups, g + 1)

\* the pieces the packing pass places for the report: a block heading for
\* each section that is there, the pieces of the groups, the failed lines
NumPieces ==
    (IF report_data.stats # <<>> THEN 1 + UnitsFrom(report_data.stats, 1) ELSE 0)
    + (IF report_data.new_titles # <<>> THEN 1 + UnitsFrom(report_data.new_titles, 1) ELSE 0)
    + (IF report_data.failed_ids # <<>> THEN 1 + Len(report_data.failed_ids) ELSE 0)

\* the call of split_content_into_batches returns: the packing pass has a
\* result, a list of batches, for the report, the format and max_bytes at hand
Returns ==
    pc = "start" =>
        Len(split_content_into_batches(report_data, channel.split_type, update_info,
                                       PackerMaxBytes, mode, reverse_order)) >= 1

\* C37 as stated: split_content_into_batches returns for every report and
\* every max_bytes, each piece causes at most one flush, and the number of
\* batches never exceeds the number of pieces
C37_TerminatesWithinPieces ==
    /\ Returns
    /\ pc # "start" => Len(batches) <= NumPieces

\* the report has a section
HasContent ==
    report_data.stats # <<>> \/ report_data.new_titles # <<>> \/ report_data.failed_ids # <<>>

\* C37 for the report with a section, and the one placeholder batch of the
\* report without any
C37_TerminatesWithinPiecesOrOne ==
    /\ Returns
    /\ pc # "start" =>
            /\ HasContent => (Len(batches) >= 1 /\ Len(batches) <= NumPieces)
            /\ ~HasContent => Len(batches) = 1

\* every piece of the report opened a batch of its own, one of them a batch
\* beyond max_bytes
C37_Witness ==
    /\ pc = "split"
    /\ NumPieces >= 3
    /\ Len(batches) = NumPieces
    /\ \E b \in 1..Len(batches) : Bytes(batches[b]) > PackerMaxBytes

\* the report without a section is packed
C37_EmptyReport ==
    pc = "split" /\ ~HasContent /\ Len(batches) = 1 /\ NumPieces = 0


\* C38: for ntfy with more than one batch, every transmission, the second
\* post after a rate-limit answer included, carries a Title header whose
\* (k/N) is the number of the [k/N] marker inside the content it sends
C38_TitleMatchesMarker ==
    \A r \in Runs :
        \A s \in Sends(r) :
            (s.channel = "ntfy" /\ s.total > 1) =>
                \A i \in 1..Len(s.log) :
                    /\ s.log[i].title = s.log[i].batch
                    /\ s.log[i].title \in 1..s.total

\* a finished ntfy send of two batches: the first one posted is rate-limited
\* and posted again, then the other batch follows
C38_Witness ==
    \E r \in Runs :
        LET s == run[r].last_send
        IN  /\ s # <<>>
            /\ s.channel = "ntfy"
            /\ s.total = 2
            /\ Len(s.log) = 3
            /\ s.log[1].outcome = "rate_limited" /\ s.log[1].title = 2
            /\ s.log[2].title = 2 /\ s.log[2].batch = 2
            /\ s.log[3].title = 1 /\ s.log[3].batch = 1

\* a single ntfy batch is posted with the plain title
C38_SingleBatchPlainTitle ==
    \A r \in Runs :
        \A s \in Sends(r) :
            (s.channel = "ntfy" /\ s.total = 1) =>
                \A i \in 1..Len(s.log) : s.log[i].title = 0


\* the line of the title j of a new-title source as the dialect named
\* platform writes it ("raw": the bare title)
LineBy(platform, j, title_data) ==
    A(2) ++ Num(j) ++ A(2)
    ++ (IF platform = "raw" THEN Enc(title_data.title)
        ELSE format_title_for_platform(platform, [title_data EXCEPT !.is_new = FALSE], FALSE))
    ++ A(1)

\* the lines of the titles 2..n of the new-title sources in the batches
RestLines ==
    {piece \in UNION {{batches[b][p] : p \in 1..Len(batches[b])} : b \in 1..Len(batches)} :
        piece.k = "new_news" /\ piece.j > 1}

\* C39: for each channel, every title 2..n of a new-title source is written
\* by the formatting rule that writes the first title of its source: the
\* same link and rank markup
C39_RestLikeFirst ==
    pc # "start" =>
        \A piece \in RestLines :
            piece.ws = LineBy(new_first_platform(channel.split_type), piece.j,
                              report_data.new_titles[piece.g].titles[piece.j])

\* the same for the channels other than Bark
C39_RestLikeFirstExceptBark ==
    (pc # "start" /\ channel.split_type # "bark") =>
        \A piece \in RestLines :
            piece.ws = LineBy(new_first_platform(channel.split_type), piece.j,
                              report_data.new_titles[piece.g].titles[piece.j])

\* Bark: the first title of a source is written in the WeWork dialect, the
\* titles after it as bare titles
C39_BarkRestBare ==
    (pc # "start" /\ channel.split_type = "bark") =>
        \A piece \in UNION {{batches[b][p] : p \in 1..Len(batches[b])} : b \in 1..Len(batches)} :
            piece.k = "new_news" =>
                piece.ws = LineBy(IF piece.j = 1 THEN "wework" ELSE "raw", piece.j,
                                  report_data.new_titles[piece.g].titles[piece.j])

\* a Bark report whose source has a second title with a link: the line of
\* the second title differs from the line the rule of the first title gives
C39_BarkSecondTitleWithLink ==
    /\ pc # "start"
    /\ channel.split_type = "bark"
    /\ \E piece \in RestLines :
          LET title_data == report_data.new_titles[piece.g].titles[piece.j]
          IN  /\ title_data.url # <<>>
              /\ piece.ws # LineBy("wework", piece.j, title_data)

====
